---- MODULE Spec2Model ----
(***************************************************************************)
(* Verification model of the smart-closet clothing-segmentation pipeline:  *)
(* ClothingSegmentationService (segmentClothing, segmentWithGoogleVision,  *)
(* mapGoogleLabelToCategory, cropImageRegion, mockSegmentation), the       *)
(* UploadScreen handler that starts it, and the SubscriptionService        *)
(* segmentation quota.                                                     *)
(*                                                                         *)
(* Conventions.  Strings that the code inspects character by character     *)
(* (detection labels, keywords) are sequences of one-character strings.    *)
(* Scores and confidences are integers in units of 1/100000 (0.3 is 30000).*)
(* Normalized coordinates are integers in eighths (0..8 stands for 0..1);  *)
(* eighths and the image sizes used are exactly representable as doubles,  *)
(* so floor(v * size) below is the value Math.floor returns.               *)
(***************************************************************************)
EXTENDS Integers, Sequences, FiniteSets, TLC

\* JavaScript null / undefined
NULL == "null"

(***************************************************************************)
(* Bounds of the model.                                                    *)
(***************************************************************************)
\* most localizedObjectAnnotations in one service response
MaxObjects == 2
\* most words of a generated detection label
MaxWords == 2
\* most incrementSegmentationCount calls
MaxUsage == 3
\* most characters of an image reference handed to aiService
MaxUriLen == 3

(***************************************************************************)
(* Category Mapper: mapGoogleLabelToCategory                               *)
(***************************************************************************)
UpperChars == <<"A","B","C","D","E","F","G","H","I","J","K","L","M",
                "N","O","P","Q","R","<<",">>T","U","V","W","X","Y","Z">>

LowerChars == <<"a","b","c","d","e","f","g","h","i","j","k","l","m",
                "n","o","p","q","r","s","t","u","v","w","x","y","z">>

\* String.prototype.toLowerCase on one character
toLowerChar(c) ==
  IF \E i \in DOMAIN UpperChars : UpperChars[i] = c
    THEN LowerChars[CHOOSE i \in DOMAIN UpperChars : UpperChars[i] = c]
    ELSE c

\* String.prototype.toLowerCase
toLowerCase(s) == [i \in DOMAIN s |-> toLowerChar(s[i])]

\* String.prototype.includes
includes(s, k) ==
  \E i \in 0..(Len(s) - Len(k)) : SubSeq(s, i + 1, i + Len(k)) = k

excludeKeywords ==
  << <<"p","e","r","s","o","n">>, <<"p","e","o","p","l","e">>, <<"h","u","m","a","n">>, <<"m","a","n">>, <<"w","o","m","a","n">>, <<"b","o","y">>, <<"g","i","r","l">>,
     <<"f","a","c","e">>, <<"h","e","a","d">>, <<"b","o","d","y">>, <<"h","a","n","d">>, <<"l","e","g">>, <<"a","r","m">>, <<"f","o","o","t">> >>

\* Object.entries(categoryMap): string keys, in insertion order
categoryMap ==
  << <<<<"s","h","i","r","t">>, "top">>, <<<<"t","o","p">>, "top">>, <<<<"t","-","s","h","i","r","t">>, "top">>,
     <<<<"b","l","o","u","s","e">>, "top">>, <<<<"s","w","e","a","t","e","r">>, "top">>, <<<<"t","a","n","k"," ","t","o","p">>, "top">>,
     <<<<"p","a","n","t","s">>, "bottom">>, <<<<"t","r","o","u","s","e","r","s">>, "bottom">>, <<<<"j","e","a","n","s">>, "bottom">>,
     <<<<"s","h","o","r","t","s">>, "bottom">>, <<<<"s","k","i","r","t">>, "bottom">>,
     <<<<"d","r","e","s","s">>, "dress">>, <<<<"g","o","w","n">>, "dress">>,
     <<<<"j","a","c","k","e","t">>, "outerwear">>, <<<<"c","o","a","t">>, "outerwear">>,
     <<<<"b","l","a","z","e","r">>, "outerwear">>, <<<<"c","a","r","d","i","g","a","n">>, "outerwear">>,
     <<<<"s","h","o","e">>, "shoes">>, <<<<"s","h","o","e","s">>, "shoes">>, <<<<"b","o","o","t">>, "shoes">>,
     <<<<"s","n","e","a","k","e","r">>, "shoes">>, <<<<"s","a","n","d","a","l">>, "shoes">>, <<<<"h","e","e","l">>, "shoes">>,
     <<<<"h","a","t">>, "accessories">>, <<<<"b","a","g">>, "accessories">>,
     <<<<"s","c","a","r","f">>, "accessories">>, <<<<"b","e","l","t">>, "accessories">>,
     <<<<"s","u","n","g","l","a","s","s","e","s">>, "accessories">>, <<<<"w","a","t","c","h">>, "accessories">> >>

\* a variant that excludes a label only when it equals a keyword
RECURSIVE scanExcludeWholeLabel(_, _)
scanExcludeWholeLabel(lowerLabel, i) ==
  IF i > Len(excludeKeywords) THEN FALSE
  ELSE IF lowerLabel = excludeKeywords[i] THEN TRUE
  ELSE scanExcludeWholeLabel(lowerLabel, i + 1)

\* the loop `for (const keyword of excludeKeywords)`, from entry i on
RECURSIVE scanExclude(_, _)
scanExclude(lowerLabel, i) ==
  IF i > Len(excludeKeywords) THEN FALSE
  ELSE IF includes(lowerLabel, excludeKeywords[i]) THEN TRUE
  ELSE scanExclude(lowerLabel, i + 1)

\* a variant in which the last matching keyword wins
RECURSIVE scanCategoryMapLastWins(_, _)
scanCategoryMapLastWins(lowerLabel, i) ==
  IF i > Len(categoryMap) THEN NULL
  ELSE LET later == scanCategoryMapLastWins(lowerLabel, i + 1)
       IN  IF later # NULL THEN later
           ELSE IF includes(lowerLabel, categoryMap[i][1]) THEN categoryMap[i][2]
           ELSE NULL

\* the loop `for (const [keyword, category] of Object.entries(categoryMap))`
RECURSIVE scanCategoryMap(_, _)
scanCategoryMap(lowerLabel, i) ==
  IF i > Len(categoryMap) THEN NULL
  ELSE IF includes(lowerLabel, categoryMap[i][1]) THEN categoryMap[i][2]
  ELSE scanCategoryMap(lowerLabel, i + 1)

mapGoogleLabelToCategory(label) ==
  LET lowerLabel == toLowerCase(label)
  IN  IF scanExclude(lowerLabel, 1) THEN NULL
      ELSE scanCategoryMap(lowerLabel, 1)

(***************************************************************************)
(* Configuration, inputs and the answers of the collaborators              *)
(***************************************************************************)
\* values API_CONFIG.GOOGLE_VISION_API_KEY can hold: unset, the placeholder,
\* a real key
VisionKeys == {"", "YOUR_GOOGLE_CLOUD_VISION_API_KEY", "vision-key"}

\* values API_CONFIG.REMOVE_BG_API_KEY can hold
RemoveBgKeys == {"", "YOUR_REMOVE_BG_API_KEY", "removebg-key"}

\* image references the user can pick
Uri(file, op, n) == [file |-> file, op |-> op, n |-> n]

\* no image reference (null)
NoUri == Uri("", "none", 0)

PhotoUris == {Uri("photoA", "photo", 0), Uri("photoB", "photo", 0)}

\* pixel sizes ImageManipulator can report, <<width, height>>
ImageSizes == {<<1000, 1000>>, <<4, 4>>}

\* normalizedVertices[0] and [2] of a boundingPoly, in eighths
BigBox == [v0 |-> <<1, 2>>, v2 |-> <<5, 6>>]

SmallBox == [v0 |-> <<0, 0>>, v2 |-> <<1, 1>>]

ThinBox == [v0 |-> <<4, 4>>, v2 |-> <<4, 7>>]

Obj(name, score, box) == [name |-> name, score |-> score, box |-> box]

\* the localizedObjectAnnotations the service can return
ObjectPool ==
  { Obj(<<"P","e","r","s","o","n">>, 90000, BigBox),
    Obj(<<"S","k","y">>, 70000, BigBox),
    Obj(<<"R","e","d"," ","d","r","e","s","s">>, 80000, BigBox),
    Obj(<<"R","e","d"," ","d","r","e","s","s">>, 30000, SmallBox),
    Obj(<<"R","u","n","n","i","n","g"," ","s","h","o","e">>, 80000, BigBox),
    Obj(<<"R","u","n","n","i","n","g"," ","s","h","o","e">>, 29999, BigBox),
    Obj(<<"E","v","e","n","i","n","g"," ","g","o","w","n">>, 90000, ThinBox) }

RECURSIVE SeqsUpTo(_, _)
SeqsUpTo(S, n) ==
  IF n = 0 THEN {<<>>}
  ELSE LET shorter == SeqsUpTo(S, n - 1)
       IN  shorter \cup {Append(s, x) : s \in {t \in shorter : Len(t) = n - 1}, x \in S}

\* responses[0].localizedObjectAnnotations of a well-formed 2xx answer
Annotations == SeqsUpTo(ObjectPool, MaxObjects)

(***************************************************************************)
(* State                                                                   *)
(***************************************************************************)
VARIABLES
  GOOGLE_VISION_API_KEY,  \* API_CONFIG.GOOGLE_VISION_API_KEY
  REMOVE_BG_API_KEY,      \* API_CONFIG.REMOVE_BG_API_KEY
  imageUri,               \* UploadScreen state: the picked photo, or NULL
  segmentedItems,         \* UploadScreen state: the items shown to the user
  segmentationsThisMonth, \* currentSubscription.usageStats (tier free)
  pc,                     \* where handleSmartSegmentation / segmentClothing is
  segImageUri,            \* the imageUri argument of segmentClothing
  imageSize,              \* <<imageWidth, imageHeight>> of segmentWithGoogleVision
  annotations,            \* localizedObjectAnnotations as the service sent them
  sortedObjects,          \* the array after .sort
  idx,                    \* position of the for-of loop in sortedObjects
  items,                  \* the items array of segmentWithGoogleVision
  croppedUri,             \* croppedUri of the iteration in progress
  visionError,            \* what segmentWithGoogleVision threw, or NULL
  thrown,                 \* what segmentClothing threw to its caller, or NULL
  calls,                  \* collaborator calls made by this run
  log,                    \* what happened to each candidate, in loop order
  quotaAtStart,           \* canUseSegmentation().allowed when the run started
  mapLabel,               \* label handed to the Category Mapper on its own
  mapResult,              \* what the mapper returned for mapLabel
  pxPc,                   \* where the pixel-rectangle computation is
  pxLiteral,              \* normalizedVertices as written in the response body
  pxVertices,             \* obj.boundingPoly.normalizedVertices after response.json()
  pxSize,                 \* <<imageWidth, imageHeight>> of that computation
  pxBox,                  \* const box = { x, y, width, height }
  bgNow,                  \* Date.now(), in milliseconds
  bgFiles,                \* FileSystem.documentDirectory: file name -> content
  bgCall,                 \* the removeBackground invocations of one batch
  clothingItems,          \* AsyncStorage value under KEYS.CLOTHING_ITEMS, parsed
  stLast,                 \* the last clothingStorage call made on its own
  saveArg,                \* the items argument of handleSaveSegmentedItems
  saveIdx,                \* position of its for-of loop
  aiUri,                  \* the imageUri handed to aiService, character by character
  aiCalls,                \* what recognizeClothingCategories returned, call by call
  cropPc,                 \* where a cropImageRegion call made on its own is
  cropBox,                \* its box argument, fields in halves of a pixel
  cropArg,                \* the crop action handed to manipulateAsync, in halves
  paymentHistory,         \* PaymentService.paymentHistory: the records, by reference
  payStored,              \* secureStorage value under PAYMENT_HISTORY_KEY
  payProc,                \* the processPayment invocations
  payCancel,              \* the cancelPayment invocations, by paymentId
  payEvents,              \* what happened to each payment, in order
  payWriteFailed,         \* some AsyncStorage.setItem of the history rejected
  subscribedTier,         \* subscriptionService.currentSubscription.tier
  conCall,                \* two clothingStorage calls in flight together
  conSeed,                \* the stored list when the first of them started
  rateNow,                \* Date.now() as the rate limiter sees it, in ms
  rateTicks,              \* how often that clock has advanced
  rateActions,            \* RateLimiter.actions.get('smart-segmentation')
  rateAccepted,           \* the times of the calls that returned true
  rateLast,               \* the last canPerformAction call and its answer
  currentSubscription,    \* SubscriptionService.currentSubscription
  subStored               \* AsyncStorage value under SUBSCRIPTION_KEY, parsed

runVars == <<pc, segImageUri, imageSize, annotations, sortedObjects, idx, items, croppedUri,
             visionError, thrown, calls, log, quotaAtStart, segmentedItems>>

mapVars == <<mapLabel, mapResult>>

pixelVars == <<pxPc, pxLiteral, pxVertices, pxSize, pxBox>>

bgVars == <<bgNow, bgFiles, bgCall>>

storeVars == <<clothingItems, stLast>>

saveVars == <<saveArg, saveIdx>>

aiVars == <<aiUri, aiCalls>>

cropVars == <<cropPc, cropBox, cropArg>>

payVars == <<paymentHistory, payStored, payProc, payCancel, payEvents, payWriteFailed,
             subscribedTier>>

conVars == <<conCall, conSeed>>

rateVars == <<rateNow, rateTicks, rateActions, rateAccepted, rateLast>>

subVars == <<currentSubscription, subStored>>

moreVars == <<cropVars, payVars, conVars, rateVars, subVars>>

auxVars == <<pixelVars, bgVars, storeVars, saveVars, aiVars, moreVars>>

vars == <<GOOGLE_VISION_API_KEY, REMOVE_BG_API_KEY, imageUri,
          segmentationsThisMonth, runVars, mapVars, auxVars>>

(***************************************************************************)
(* SubscriptionService: the segmentation quota                             *)
(***************************************************************************)
\* BASE_SUBSCRIPTION_PLANS[...].limits.maxSegmentations; 0 stands for
\* undefined (unlimited), which `!plan.limits.maxSegmentations` treats alike
maxSegmentations(tier) ==
  CASE tier = "free" -> 3
    [] tier = "basic" -> 20
    [] OTHER -> 0

\* canUseSegmentation().allowed
canUseSegmentation(tier, used) ==
  IF maxSegmentations(tier) = 0 THEN TRUE
  ELSE IF used >= maxSegmentations(tier) THEN FALSE
  ELSE TRUE

incrementSegmentationCount ==
  /\ segmentationsThisMonth < MaxUsage
  /\ segmentationsThisMonth' = segmentationsThisMonth + 1
  /\ UNCHANGED <<GOOGLE_VISION_API_KEY, REMOVE_BG_API_KEY, imageUri, runVars, mapVars, auxVars>>

(***************************************************************************)
(* segmentWithGoogleVision: helpers                                        *)
(***************************************************************************)
\* scores and confidences are in units of 1/100000
CONFIDENCE_THRESHOLD == 30000

\* a variant that forgets the placeholder
KeyConfiguredNonEmpty(key) == key # ""

KeyConfigured(key) == ~(key = "" \/ key = "YOUR_GOOGLE_CLOUD_VISION_API_KEY")

\* a variant that takes the placeholder for a credential
RemoveBgConfiguredNonEmpty(key) == key # ""

RemoveBgConfigured(key) == key # "" /\ key # "YOUR_REMOVE_BG_API_KEY"

\* a variant with the operands swapped (ascending order)
compareScoreAscending(a, b) == a.score - b.score

\* comparator (a, b) => b.score - a.score: a negative value keeps a before b
compareScore(a, b) == b.score - a.score

\* one insertion of a stable sort: x goes after every element it does not
\* strictly precede
RECURSIVE insertSorted(_, _)
insertSorted(sorted, x) ==
  IF sorted = <<>> THEN <<x>>
  ELSE IF compareScore(Head(sorted), x) <= 0
         THEN <<Head(sorted)>> \o insertSorted(Tail(sorted), x)
         ELSE <<x>> \o sorted

\* Array.prototype.sort with compareScore (stable)
RECURSIVE sortObjects(_)
sortObjects(objs) ==
  IF objs = <<>> THEN <<>>
  ELSE insertSorted(sortObjects(SubSeq(objs, 1, Len(objs) - 1)), objs[Len(objs)])

\* Math.floor(v * size) for v = eighths / 8
floorScaled(eighths, size) == (eighths * size) \div 8

\* x, y, width, height of lines 154-157
pixelBox(obj, size) ==
  [ x      |-> floorScaled(obj.box.v0[1], size[1]),
    y      |-> floorScaled(obj.box.v0[2], size[2]),
    width  |-> floorScaled(obj.box.v2[1] - obj.box.v0[1], size[1]),
    height |-> floorScaled(obj.box.v2[2] - obj.box.v0[2], size[2]) ]

(***************************************************************************)
(* Number arithmetic.  The coordinates of a response body are decimal      *)
(* literals; response.json() reads each as the nearest IEEE-754 double,    *)
(* and -, * and Math.floor work on doubles.  A double is kept here as a    *)
(* sign and a magnitude in units of 2^-(FracLimbs * LimbBits), the         *)
(* magnitude written in limbs of LimbBits bits, least significant limb     *)
(* first, without leading zero limbs.  Every double that is 0 or at least  *)
(* 1/16 is a whole number of such units.                                   *)
(***************************************************************************)
\* significand width of a double
SigBits == 53

\* width of one limb
LimbBits == 14

Limb == 2 ^ LimbBits

\* limbs kept below the binary point: 56 binary places
FracLimbs == 4

RECURSIVE natLimbs(_)
natLimbs(n) == IF n = 0 THEN <<>> ELSE <<n % Limb>> \o natLimbs(n \div Limb)

RECURSIVE limbsNat(_)
limbsNat(l) == IF l = <<>> THEN 0 ELSE l[1] + Limb * limbsNat(Tail(l))

RECURSIVE trimLimbs(_)
trimLimbs(l) ==
  IF l = <<>> \/ l[Len(l)] # 0 THEN l ELSE trimLimbs(SubSeq(l, 1, Len(l) - 1))

zeroLimbs(k) == [i \in 1..k |-> 0]

\* l * w + carry for a small natural w
RECURSIVE mulLimbs(_, _, _)
mulLimbs(l, w, carry) ==
  IF l = <<>> THEN natLimbs(carry)
  ELSE LET t == l[1] * w + carry
       IN  <<t % Limb>> \o mulLimbs(Tail(l), w, t \div Limb)

\* a + b + carry
RECURSIVE addLimbs(_, _, _)
addLimbs(a, b, carry) ==
  IF a = <<>> /\ b = <<>> THEN natLimbs(carry)
  ELSE LET t == (IF a = <<>> THEN 0 ELSE a[1]) + (IF b = <<>> THEN 0 ELSE b[1]) + carry
       IN  <<t % Limb>> \o addLimbs(IF a = <<>> THEN <<>> ELSE Tail(a),
                                    IF b = <<>> THEN <<>> ELSE Tail(b), t \div Limb)

\* a - b - borrow for a >= b + borrow
RECURSIVE subLimbs(_, _, _)
subLimbs(a, b, borrow) ==
  IF a = <<>> THEN <<>>
  ELSE LET t == a[1] - (IF b = <<>> THEN 0 ELSE b[1]) - borrow
       IN  <<t % Limb>> \o subLimbs(Tail(a), IF b = <<>> THEN <<>> ELSE Tail(b),
                                    IF t < 0 THEN 1 ELSE 0)

\* a >= b, both without leading zero limbs
RECURSIVE geqLimbs(_, _)
geqLimbs(a, b) ==
  IF Len(a) # Len(b) THEN Len(a) > Len(b)
  ELSE IF a = <<>> THEN TRUE
  ELSE IF a[Len(a)] # b[Len(b)] THEN a[Len(a)] > b[Len(b)]
  ELSE geqLimbs(trimLimbs(SubSeq(a, 1, Len(a) - 1)), trimLimbs(SubSeq(b, 1, Len(b) - 1)))

\* long division by a small natural d, most significant limb first
RECURSIVE divLimbs(_, _, _)
divLimbs(l, d, rem) ==
  IF l = <<>> THEN [q |-> <<>>, r |-> rem]
  ELSE LET t    == Limb * rem + l[Len(l)]
           rest == divLimbs(SubSeq(l, 1, Len(l) - 1), d, t % d)
       IN  [q |-> rest.q \o <<t \div d>>, r |-> rest.r]

\* number of significant bits of a magnitude without leading zero limbs
bitLength(l) ==
  IF l = <<>> THEN 0
  ELSE LimbBits * (Len(l) - 1)
         + (CHOOSE k \in 1..LimbBits : 2 ^ (k - 1) <= l[Len(l)] /\ l[Len(l)] < 2 ^ k)

\* bit i of a magnitude, bit 1 the least significant
bitOf(l, i) == (l[((i - 1) \div LimbBits) + 1] \div (2 ^ ((i - 1) % LimbBits))) % 2

\* the magnitude with its s lowest bits cleared
clearLow(l, s) ==
  [j \in 1..Len(l) |->
     IF LimbBits * j <= s THEN 0
     ELSE IF LimbBits * (j - 1) >= s THEN l[j]
     ELSE LET k == 2 ^ (s - LimbBits * (j - 1)) IN (l[j] \div k) * k]

\* 2^s
powerOfTwo(s) == zeroLimbs(s \div LimbBits) \o <<2 ^ (s % LimbBits)>>

\* a variant that drops the bits a double cannot hold (round toward zero)
roundTowardZero(l0, inexact) ==
  LET l == trimLimbs(l0)
      s == bitLength(l) - SigBits
  IN  IF s <= 0 THEN l ELSE clearLow(l, s)

\* round to nearest, ties to even, at SigBits significant bits; inexact says
\* that the value is a little above l0
roundToNearest(l0, inexact) ==
  LET l == trimLimbs(l0)
      s == bitLength(l) - SigBits
  IN  IF s <= 0 THEN l
      ELSE LET below == inexact \/ \E i \in 1..(s - 1) : bitOf(l, i) = 1
               up    == bitOf(l, s) = 1 /\ (below \/ bitOf(l, s + 1) = 1)
           IN  IF up THEN addLimbs(clearLow(l, s), powerOfTwo(s), 0) ELSE clearLow(l, s)

Number(neg, mag) == [neg |-> neg, mag |-> mag]

Decimal(num, den) == [num |-> num, den |-> den]

\* the double that JSON parsing gives for the literal num/den: the division
\* carries one limb more than is kept
numberFromDecimal(lit) ==
  LET d == divLimbs(zeroLimbs(FracLimbs + 1) \o natLimbs(lit.num), lit.den, 0)
      r == roundToNearest(d.q, d.r # 0)
  IN  Number(FALSE, trimLimbs(SubSeq(r, 2, Len(r))))

\* a - b for doubles a, b >= 0
numberSubtract(a, b) ==
  IF geqLimbs(a.mag, b.mag)
    THEN Number(FALSE, trimLimbs(roundToNearest(subLimbs(a.mag, b.mag, 0), FALSE)))
    ELSE Number(TRUE, trimLimbs(roundToNearest(subLimbs(b.mag, a.mag, 0), FALSE)))

\* a * w for a double a and a natural w that a double holds exactly
numberTimes(a, w) == Number(a.neg, trimLimbs(roundToNearest(mulLimbs(a.mag, w, 0), FALSE)))

\* Math.floor
mathFloor(a) ==
  LET whole == limbsNat(SubSeq(a.mag, FracLimbs + 1, Len(a.mag)))
      part  == \E j \in 1..FracLimbs : j <= Len(a.mag) /\ a.mag[j] # 0
  IN  IF a.neg THEN 0 - (whole + (IF part THEN 1 ELSE 0)) ELSE whole

\* Math.ceil
mathCeil(a) ==
  LET whole == limbsNat(SubSeq(a.mag, FracLimbs + 1, Len(a.mag)))
      part  == \E j \in 1..FracLimbs : j <= Len(a.mag) /\ a.mag[j] # 0
  IN  IF a.neg THEN 0 - whole ELSE whole + (IF part THEN 1 ELSE 0)

\* a variant that rounds the width and the height up
boundingBoxCeil(vertices, size) ==
  LET topLeft     == vertices[1]
      bottomRight == vertices[2]
  IN  [ x      |-> mathFloor(numberTimes(topLeft[1], size[1])),
        y      |-> mathFloor(numberTimes(topLeft[2], size[2])),
        width  |-> mathCeil(numberTimes(numberSubtract(bottomRight[1], topLeft[1]), size[1])),
        height |-> mathCeil(numberTimes(numberSubtract(bottomRight[2], topLeft[2]), size[2])) ]

\* lines 150-157 on doubles: vertices is <<topLeft, bottomRight>>, each <<x, y>>
boundingBox(vertices, size) ==
  LET topLeft     == vertices[1]
      bottomRight == vertices[2]
  IN  [ x      |-> mathFloor(numberTimes(topLeft[1], size[1])),
        y      |-> mathFloor(numberTimes(topLeft[2], size[2])),
        width  |-> mathFloor(numberTimes(numberSubtract(bottomRight[1], topLeft[1]), size[1])),
        height |-> mathFloor(numberTimes(numberSubtract(bottomRight[2], topLeft[2]), size[2])) ]

\* a variant that also skips a score equal to the threshold
lowConfidenceExclusive(obj) == obj.score <= CONFIDENCE_THRESHOLD

\* the confidence filter of line 140: TRUE when the candidate is skipped
lowConfidence(obj) == obj.score < CONFIDENCE_THRESHOLD

\* a variant that lets empty rectangles through
invalidDimensionsNegativeOnly(box) == box.width < 0 \/ box.height < 0

\* a variant that skips a rectangle only when both sides are empty
invalidDimensionsBoth(box) == box.width <= 0 /\ box.height <= 0

\* the validity test of line 160: TRUE when the candidate is skipped
invalidDimensions(box) == box.width <= 0 \/ box.height <= 0

Item(category, uri, box, confidence) ==
  [category |-> category, imageUri |-> uri, boundingBox |-> box,
   confidence |-> confidence]

\* a variant that returns the first mock item only
mockItemsTopOnly(uri) ==
  << Item("top", uri, [x |-> 100, y |-> 50, width |-> 200, height |-> 150], 95000) >>

\* mockSegmentation's mockItems
mockItems(uri) ==
  << Item("top", uri, [x |-> 100, y |-> 50, width |-> 200, height |-> 150], 95000),
     Item("bottom", uri, [x |-> 100, y |-> 200, width |-> 200, height |-> 200], 92000) >>

\* what each candidate of the loop went through
Entry(obj, outcome, cropped, box) ==
  [obj |-> obj, outcome |-> outcome, cropped |-> cropped, box |-> box]

NoBox == [x |-> 0, y |-> 0, width |-> 0, height |-> 0]

(***************************************************************************)
(* clothingStorage: the list of ClothingItem records kept as JSON text     *)
(* under one AsyncStorage key.                                             *)
(***************************************************************************)
\* new Date() at millisecond ms
Date(ms) == [type |-> "Date", ms |-> ms]

\* what JSON.stringify followed by JSON.parse makes of a record: a Date
\* comes back as its ISO string
jsonItem(item) == [item EXCEPT !.createdAt = [type |-> "string", ms |-> @.ms]]

jsonItems(list) == [k \in DOMAIN list |-> jsonItem(list[k])]

\* getAll: the parsed list, or [] when getItem or JSON.parse throws
getAll(stored, readOk) == IF readOk THEN stored ELSE <<>>

\* items.findIndex(i => i.id === id); 0 stands for -1
findIndex(list, id) ==
  IF \E k \in DOMAIN list : list[k].id = id
    THEN CHOOSE k \in DOMAIN list :
           list[k].id = id /\ \A j \in DOMAIN list : list[j].id = id => k <= j
    ELSE 0

\* a variant that always pushes
saveAlwaysPush(stored, item, readOk) == jsonItems(Append(getAll(stored, readOk), item))

\* save, lines 384-393: the list handed to setItem
save(stored, item, readOk) ==
  LET list  == getAll(stored, readOk)
      index == findIndex(list, item.id)
  IN  jsonItems(IF index > 0 THEN [list EXCEPT ![index] = item] ELSE Append(list, item))

\* delete, lines 402-404: the list handed to setItem
delete(stored, id, readOk) ==
  jsonItems(SelectSeq(getAll(stored, readOk), LAMBDA i : i.id # id))

\* no clothingStorage call yet
NoCall ==
  [op |-> "none", id |-> 0, item |-> <<>>, before |-> <<>>, readOk |-> TRUE, threw |-> FALSE]

(***************************************************************************)
(* BackgroundRemovalService: messages, files and invocations.  Messages    *)
(* are kept character by character because the catch of lines 150-161     *)
(* inspects them; the Chinese messages of the source are written in        *)
(* English.                                                                *)
(***************************************************************************)
\* the invocations of one removeBatchBackgrounds call
Batch == {1, 2}

\* references handed to removeBackground
BgInputs == {Uri("photoA", "crop", 1), Uri("photoB", "crop", 1)}

\* new Error('Request timeout'), line 84
REQUEST_TIMEOUT == <<"R","e","q","u","e","s","t"," ","t","i","m","e","o","u","t">>

\* '请求超时，请检查网络连接', line 155
TIMEOUT_MESSAGE == <<"r","e","q","u","e","s","t"," ","t","i","m","e","d"," ","o","u","t",","," ","c","h","e","c","k"," ","t","h","e"," ","n","e","t","w","o","r","k"," ","c","o","n","n","e","c","t","i","o","n">>

\* '背景移除失败，请稍后重试', line 159
RETRY_MESSAGE == <<"b","a","c","k","g","r","o","u","n","d"," ","r","e","m","o","v","a","l"," ","f","a","i","l","e","d",","," ","t","r","y"," ","a","g","a","i","n"," ","l","a","t","e","r">>

\* '背景移除失败', line 39
REMOVAL_FAILED == <<"b","a","c","k","g","r","o","u","n","d"," ","r","e","m","o","v","a","l"," ","f","a","i","l","e","d">>

\* response.status of a rejected request, as text
Statuses == {<<"4","0","2">>, <<"4","0","3">>}

\* errorData.errors?.[0]?.title of a rejected request; <<>> stands for a
\* body without a title, NoJson for a body that is not JSON
NoJson == <<"<","h","t","m","l",">">>

ErrorBodies == {<<"I","n","s","u","f","f","i","c","i","e","n","t"," ","c","r","e","d","i","t","s">>, <<"I","n","v","a","l","i","d"," ","A","P","I"," ","K","e","y">>, <<>>, NoJson}

\* lines 90-99: `API调用失败: ${response.status}`, replaced by the title of
\* the first error when the body is JSON and has one
errorMessage(status, body) ==
  LET default == <<"A","P","I"," ","c","a","l","l"," ","f","a","i","l","e","d",":"," ">> \o status
  IN  IF body = NoJson \/ body = <<>> THEN default ELSE body

\* the catch of lines 150-161: what removeBackgroundWithRemoveBg throws for
\* an error with this message
removeBgCatch(message) ==
  IF message = REQUEST_TIMEOUT THEN TIMEOUT_MESSAGE
  ELSE IF includes(message, <<"A","P","I">>) THEN message
  ELSE RETRY_MESSAGE

\* the catch of lines 37-40: what removeBackground throws for any error
removeBackgroundCatch(message) == REMOVAL_FAILED

\* `${FileSystem.documentDirectory}bg_removed_${Date.now()}.png`
fileUri(now) == Uri("documentDirectory", "bg_removed", now)

IdleCall ==
  [pc |-> "idle", input |-> NoUri, fetched |-> FALSE, fileName |-> 0,
   result |-> NoUri, cause |-> "", title |-> <<>>, inner |-> <<>>, thrown |-> <<>>]

(***************************************************************************)
(* PaymentService: data                                                    *)
(***************************************************************************)
\* the payments of a run; invocation p of processPayment creates record p
PaymentIds == {1, 2}

\* request.subscriptionTier
PaidTiers == {"basic", "premium"}

\* DEMO_MODE || request.paymentMethod === 'demo' (line 324): the demo route,
\* otherwise processRealPayment
Routes == {"demo", "real"}

\* a processPayment invocation that has not started
IdleProc == [pc |-> "idle", route |-> "", success |-> FALSE]

\* a cancelPayment invocation that has not started
IdleCancel == [pc |-> "idle", found |-> FALSE, returned |-> FALSE]

\* the two overlapping clothingStorage calls
Callers == {1, 2}

\* a clothingStorage call that has not started
IdleOp == [pc |-> "idle", op |-> "", id |-> 0, item |-> <<>>, items |-> <<>>]

\* no canPerformAction call yet
NoAttempt == [now |-> 0, allowed |-> FALSE, made |-> FALSE]

\* currentSubscription = null, and nothing under SUBSCRIPTION_KEY
NoSubscription == [tier |-> "none", itemsCount |-> 0, segmentationsThisMonth |-> 0]

(***************************************************************************)
(* Initial state: the app is configured, nothing is picked, no run started *)
(***************************************************************************)
Init ==
  /\ GOOGLE_VISION_API_KEY \in VisionKeys
  /\ REMOVE_BG_API_KEY \in RemoveBgKeys
  /\ imageUri = NoUri
  /\ segmentedItems = <<>>
  /\ segmentationsThisMonth = 0
  /\ pc = "idle"
  /\ segImageUri = NoUri
  /\ imageSize = <<0, 0>>
  /\ annotations = <<>>
  /\ sortedObjects = <<>>
  /\ idx = 0
  /\ items = <<>>
  /\ croppedUri = NoUri
  /\ visionError = NULL
  /\ thrown = NULL
  /\ calls = {}
  /\ log = <<>>
  /\ quotaAtStart = TRUE
  /\ mapLabel = <<>>
  /\ mapResult = "unset"
  /\ pxPc = "idle"
  /\ pxLiteral = <<>>
  /\ pxVertices = <<>>
  /\ pxSize = <<0, 0>>
  /\ pxBox = NoBox
  /\ bgNow = 1
  /\ bgFiles = <<>>
  /\ bgCall = [i \in Batch |-> IdleCall]
  /\ clothingItems = <<>>
  /\ stLast = NoCall
  /\ saveArg = <<>>
  /\ saveIdx = 0
  /\ aiUri = <<>>
  /\ aiCalls = <<>>
  /\ cropPc = "idle"
  /\ cropBox = NoBox
  /\ cropArg = NoBox
  /\ paymentHistory = <<>>
  /\ payStored = <<>>
  /\ payProc = [p \in PaymentIds |-> IdleProc]
  /\ payCancel = [p \in PaymentIds |-> IdleCancel]
  /\ payEvents = [p \in PaymentIds |-> <<>>]
  /\ payWriteFailed = FALSE
  /\ subscribedTier = "free"
  /\ conCall = [c \in Callers |-> IdleOp]
  /\ conSeed = <<>>
  /\ rateNow = 0
  /\ rateTicks = 0
  /\ rateActions = <<>>
  /\ rateAccepted = <<>>
  /\ rateLast = NoAttempt
  /\ currentSubscription = NoSubscription
  /\ subStored = NoSubscription

config == <<GOOGLE_VISION_API_KEY, REMOVE_BG_API_KEY>>

\* the upload flow's state
pipelineVars == <<config, imageUri, segmentationsThisMonth, runVars>>

(***************************************************************************)
(* UploadScreen                                                            *)
(***************************************************************************)
\* pickImage / takePhoto: setImageUri(processedUri)
pickImage ==
  /\ \E uri \in PhotoUris : imageUri' = uri
  /\ UNCHANGED <<config, segmentationsThisMonth, runVars, mapVars, auxVars>>

\* segmentWithGoogleVision failed with `why`: the inner catch of
\* segmentClothing starts mockSegmentation
visionFailed(why) ==
  /\ visionError' = why
  /\ pc' = "mock"

\* handleSmartSegmentation up to its first suspension: the guard on imageUri,
\* segmentClothing, and the credential check of segmentWithGoogleVision
handleSmartSegmentation ==
  /\ pc = "idle"
  /\ IF imageUri = NoUri
       THEN UNCHANGED vars
       ELSE /\ segImageUri' = imageUri
            /\ quotaAtStart' = canUseSegmentation("free", segmentationsThisMonth)
            /\ IF KeyConfigured(GOOGLE_VISION_API_KEY)
                 THEN /\ pc' = "imageInfo"
                      /\ calls' = calls \cup {"manipulateAsync"}
                      /\ UNCHANGED visionError
                 ELSE /\ visionFailed("Google Cloud Vision API Key not configured")
                      /\ UNCHANGED calls
            /\ UNCHANGED <<config, imageUri, segmentationsThisMonth, imageSize,
                           annotations, sortedObjects, idx, items, croppedUri,
                           thrown, log, segmentedItems, mapVars, auxVars>>

(***************************************************************************)
(* segmentWithGoogleVision                                                 *)

(***************************************************************************)
\* ImageManipulator.manipulateAsync(imageUri, []) resolves or rejects
imageInfo ==
  /\ pc = "imageInfo"
  /\ \/ /\ \E size \in ImageSizes : imageSize' = size
        /\ pc' = "readImage"
        /\ calls' = calls \cup {"readAsStringAsync"}
        /\ UNCHANGED visionError
     \/ /\ visionFailed("manipulateAsync failed")
        /\ UNCHANGED <<imageSize, calls>>
  /\ UNCHANGED <<config, imageUri, segImageUri, segmentationsThisMonth, annotations,
                 sortedObjects, idx, items, croppedUri, thrown, log,
                 quotaAtStart, segmentedItems, mapVars, auxVars>>

\* FileSystem.readAsStringAsync resolves (and fetch is called) or rejects
readImage ==
  /\ pc = "readImage"
  /\ \/ /\ pc' = "fetch"
        /\ calls' = calls \cup {"fetch"}
        /\ UNCHANGED visionError
     \/ /\ visionFailed("readAsStringAsync failed")
        /\ UNCHANGED calls
  /\ UNCHANGED <<config, imageUri, segImageUri, segmentationsThisMonth, imageSize, annotations,
                 sortedObjects, idx, items, croppedUri, thrown, log,
                 quotaAtStart, segmentedItems, mapVars, auxVars>>

\* the request fails: fetch rejects, the status is not 2xx, or the body is
\* not the expected JSON (response.json() rejects, responses[0] is undefined)
fetchFails ==
  /\ pc = "fetch"
  /\ \E why \in {"Network request failed", "API call failed: status",
                 "malformed payload"} : visionFailed(why)
  /\ UNCHANGED <<config, imageUri, segImageUri, segmentationsThisMonth, imageSize, annotations,
                 sortedObjects, idx, items, croppedUri, thrown, calls, log,
                 quotaAtStart, segmentedItems, mapVars, auxVars>>

\* a 2xx answer with a well-formed body; an absent localizedObjectAnnotations
\* leaves the loop unentered, like an empty one
fetchSucceeds ==
  /\ pc = "fetch"
  /\ \E objs \in Annotations :
       /\ annotations' = objs
       /\ sortedObjects' = sortObjects(objs)
  /\ idx' = 1
  /\ items' = <<>>
  /\ pc' = "loop"
  /\ UNCHANGED <<config, imageUri, segImageUri, segmentationsThisMonth, imageSize, croppedUri,
                 visionError, thrown, calls, log, quotaAtStart, segmentedItems,
                 mapVars, auxVars>>

\* one iteration of `for (const obj of sortedObjects)` up to cropImageRegion
processObject ==
  /\ pc = "loop"
  /\ idx <= Len(sortedObjects)
  /\ LET obj == sortedObjects[idx]
         category == mapGoogleLabelToCategory(obj.name)
         box == pixelBox(obj, imageSize)
     IN  IF lowConfidence(obj)
           THEN /\ log' = Append(log, Entry(obj, "low confidence", NoUri, NoBox))
                /\ idx' = idx + 1
                /\ UNCHANGED <<pc, calls>>
         ELSE IF category = NULL
           THEN /\ log' = Append(log, Entry(obj, "not clothing", NoUri, NoBox))
                /\ idx' = idx + 1
                /\ UNCHANGED <<pc, calls>>
         ELSE IF invalidDimensions(box)
           THEN /\ log' = Append(log, Entry(obj, "invalid dimensions", NoUri, box))
                /\ idx' = idx + 1
                /\ UNCHANGED <<pc, calls>>
         ELSE /\ pc' = "crop"
              /\ calls' = calls \cup {"crop"}
              /\ UNCHANGED <<log, idx>>
  /\ UNCHANGED <<config, imageUri, segImageUri, segmentationsThisMonth, imageSize, annotations,
                 sortedObjects, items, croppedUri, visionError, thrown,
                 quotaAtStart, segmentedItems, mapVars, auxVars>>

\* the candidate lacks score or boundingPoly (a malformed payload): reading
\* it raises a TypeError outside the per-candidate try, so
\* segmentWithGoogleVision throws whatever items it had collected
objectMalformed ==
  /\ pc = "loop"
  /\ idx <= Len(sortedObjects)
  /\ visionFailed("malformed payload")
  /\ UNCHANGED <<config, imageUri, segImageUri, segmentationsThisMonth, imageSize,
                 annotations, sortedObjects, idx, items, croppedUri, thrown,
                 calls, log, quotaAtStart, segmentedItems, mapVars, auxVars>>

\* cropImageRegion resolves with a new artifact; removeBackground is called
cropSucceeds ==
  /\ pc = "crop"
  /\ croppedUri' = Uri(segImageUri.file, "crop", idx)
  /\ pc' = "removeBackground"
  /\ calls' = calls \cup {"removeBackground"}
  /\ UNCHANGED <<config, imageUri, segImageUri, segmentationsThisMonth, imageSize, annotations,
                 sortedObjects, idx, items, visionError, thrown, log,
                 quotaAtStart, segmentedItems, mapVars, auxVars>>

\* a variant in which cropError leaves the loop: the run is over
cropFailsAborts ==
  /\ pc = "crop"
  /\ log' = Append(log, Entry(sortedObjects[idx], "crop failed", NoUri,
                              pixelBox(sortedObjects[idx], imageSize)))
  /\ visionFailed("crop failed")
  /\ UNCHANGED <<config, imageUri, segImageUri, segmentationsThisMonth, imageSize, annotations,
                 sortedObjects, idx, items, croppedUri, thrown, calls,
                 quotaAtStart, segmentedItems, mapVars, auxVars>>

\* cropImageRegion rejects: catch (cropError) logs and the loop goes on
cropFails ==
  /\ pc = "crop"
  /\ log' = Append(log, Entry(sortedObjects[idx], "crop failed", NoUri,
                              pixelBox(sortedObjects[idx], imageSize)))
  /\ idx' = idx + 1
  /\ pc' = "loop"
  /\ UNCHANGED <<config, imageUri, segImageUri, segmentationsThisMonth, imageSize, annotations,
                 sortedObjects, items, croppedUri, visionError, thrown, calls,
                 quotaAtStart, segmentedItems, mapVars, auxVars>>

\* items.push({category, imageUri: transparentUri, boundingBox: box,
\* confidence: obj.score}) and the end of the iteration
pushItem(transparentUri, outcome) ==
  LET obj == sortedObjects[idx]
      box == pixelBox(obj, imageSize)
  IN  /\ items' = Append(items, Item(mapGoogleLabelToCategory(obj.name),
                                     transparentUri, box, obj.score))
      /\ log' = Append(log, Entry(obj, outcome, croppedUri, box))
      /\ idx' = idx + 1
      /\ croppedUri' = NoUri
      /\ pc' = "loop"

\* removeBackground resolves: with a new artifact when a matting credential
\* is configured, with its argument (mockBackgroundRemoval) when not
removeBackgroundResolves ==
  /\ pc = "removeBackground"
  /\ IF RemoveBgConfigured(REMOVE_BG_API_KEY)
       THEN pushItem(Uri(croppedUri.file, "bg_removed", croppedUri.n), "background removed")
       ELSE pushItem(croppedUri, "background kept")
  /\ UNCHANGED <<config, imageUri, segImageUri, segmentationsThisMonth, imageSize, annotations,
                 sortedObjects, visionError, thrown, calls, quotaAtStart,
                 segmentedItems, mapVars, auxVars>>

\* a variant in which bgError reaches catch (cropError): the candidate is lost
removeBackgroundRejectsDropsItem ==
  /\ pc = "removeBackground"
  /\ RemoveBgConfigured(REMOVE_BG_API_KEY)
  /\ log' = Append(log, Entry(sortedObjects[idx], "background removal failed",
                              croppedUri, pixelBox(sortedObjects[idx], imageSize)))
  /\ idx' = idx + 1
  /\ croppedUri' = NoUri
  /\ pc' = "loop"
  /\ UNCHANGED <<config, imageUri, segImageUri, segmentationsThisMonth, imageSize,
                 annotations, sortedObjects, items, visionError, thrown, calls,
                 quotaAtStart, segmentedItems, mapVars, auxVars>>

\* removeBackground rejects (only the configured path can): catch (bgError)
\* keeps transparentUri = croppedUri
removeBackgroundRejects ==
  /\ pc = "removeBackground"
  /\ RemoveBgConfigured(REMOVE_BG_API_KEY)
  /\ pushItem(croppedUri, "background removal failed")
  /\ UNCHANGED <<config, imageUri, segImageUri, segmentationsThisMonth, imageSize, annotations,
                 sortedObjects, visionError, thrown, calls, quotaAtStart,
                 segmentedItems, mapVars, auxVars>>

\* after the loop, items is empty: segmentWithGoogleVision throws, and the
\* inner catch of segmentClothing (lines 49-52) starts mockSegmentation
noItemsDetected ==
  /\ pc = "loop"
  /\ idx > Len(sortedObjects)
  /\ items = <<>>
  /\ visionFailed("no clothing items detected")
  /\ UNCHANGED <<config, imageUri, segImageUri, segmentationsThisMonth, imageSize, annotations,
                 sortedObjects, idx, items, croppedUri, thrown, calls, log,
                 quotaAtStart, segmentedItems, mapVars, auxVars>>

\* states of the upload flow after the result alert
AfterAlert == {"saving", "saved", "saveFailed", "dismissed"}

\* `${Date.now()}_${Math.random()}`: an id no stored record has
freshId(stored) ==
  CHOOSE n \in 1..(Len(stored) + 1) : \A k \in DOMAIN stored : stored[k].id # n

\* the ClothingItem of lines 735-743
newItem(item, id) ==
  [id |-> id, imageUri |-> item.imageUri, transparentImageUri |-> item.imageUri,
   category |-> item.category, isFavorite |-> FALSE, createdAt |-> Date(0)]

\* the user presses "save all" in the alert: handleSaveSegmentedItems(items)
alertSaveAll ==
  /\ pc = "alert"
  /\ pc' = "saving"
  /\ saveArg' = segmentedItems
  /\ saveIdx' = 1
  /\ UNCHANGED <<config, imageUri, segImageUri, segmentationsThisMonth, imageSize, annotations,
                 sortedObjects, idx, items, croppedUri, visionError, thrown,
                 calls, log, quotaAtStart, segmentedItems, mapVars, pixelVars, bgVars,
                 storeVars, aiVars, moreVars>>

\* the user presses "cancel" in the alert
alertCancel ==
  /\ pc = "alert"
  /\ pc' = "dismissed"
  /\ UNCHANGED <<config, imageUri, segImageUri, segmentationsThisMonth, imageSize, annotations,
                 sortedObjects, idx, items, croppedUri, visionError, thrown,
                 calls, log, quotaAtStart, segmentedItems, mapVars, auxVars>>

\* a variant of visionReturns that stores the items before the user is asked
visionReturnsAndSaves ==
  /\ pc = "loop"
  /\ idx > Len(sortedObjects)
  /\ items # <<>>
  /\ segmentedItems' = items
  /\ pc' = "alert"
  /\ clothingItems' = save(clothingItems, newItem(items[1], freshId(clothingItems)), TRUE)
  /\ UNCHANGED <<config, imageUri, segImageUri, segmentationsThisMonth, imageSize, annotations,
                 sortedObjects, idx, items, croppedUri, visionError, thrown,
                 calls, log, quotaAtStart, mapVars, pixelVars, bgVars, stLast, saveVars, aiVars, moreVars>>

\* after the loop, items is not empty: segmentWithGoogleVision and
\* segmentClothing return it, handleSmartSegmentation shows it
visionReturns ==
  /\ pc = "loop"
  /\ idx > Len(sortedObjects)
  /\ items # <<>>
  /\ segmentedItems' = items
  /\ pc' = "alert"
  /\ UNCHANGED <<config, imageUri, segImageUri, segmentationsThisMonth, imageSize, annotations,
                 sortedObjects, idx, items, croppedUri, visionError, thrown,
                 calls, log, quotaAtStart, mapVars, auxVars>>

\* mockSegmentation: after its delay segmentClothing returns mockItems and
\* handleSmartSegmentation shows them
mockSegmentation ==
  /\ pc = "mock"
  /\ segmentedItems' = mockItems(segImageUri)
  /\ pc' = "alert"
  /\ UNCHANGED <<config, imageUri, segImageUri, segmentationsThisMonth, imageSize, annotations,
                 sortedObjects, idx, items, croppedUri, visionError, thrown,
                 calls, log, quotaAtStart, mapVars, auxVars>>

\* one turn of the loop of handleSaveSegmentedItems: await
\* clothingStorage.save(newItem); a rejected write ends the handler in its
\* catch
saveSegmentedItem ==
  /\ pc = "saving"
  /\ saveIdx <= Len(saveArg)
  /\ \/ /\ \E readOk \in BOOLEAN :
             clothingItems' = save(clothingItems,
                                   newItem(saveArg[saveIdx], freshId(clothingItems)), readOk)
        /\ saveIdx' = saveIdx + 1
        /\ UNCHANGED pc
     \/ /\ pc' = "saveFailed"
        /\ UNCHANGED <<clothingItems, saveIdx>>
  /\ UNCHANGED <<config, imageUri, segImageUri, segmentationsThisMonth, imageSize, annotations,
                 sortedObjects, idx, items, croppedUri, visionError, thrown,
                 calls, log, quotaAtStart, segmentedItems, mapVars, pixelVars, bgVars,
                 stLast, saveArg, aiVars, moreVars>>

\* after the loop: the form is reset (lines 758-763)
saveAllDone ==
  /\ pc = "saving"
  /\ saveIdx > Len(saveArg)
  /\ imageUri' = NoUri
  /\ segmentedItems' = <<>>
  /\ pc' = "saved"
  /\ UNCHANGED <<config, segImageUri, segmentationsThisMonth, imageSize, annotations,
                 sortedObjects, idx, items, croppedUri, visionError, thrown,
                 calls, log, quotaAtStart, mapVars, auxVars>>

Next ==
  \/ pickImage
  \/ handleSmartSegmentation
  \/ imageInfo
  \/ readImage
  \/ fetchFails
  \/ fetchSucceeds
  \/ processObject
  \/ objectMalformed
  \/ cropSucceeds
  \/ cropFails
  \/ removeBackgroundResolves
  \/ removeBackgroundRejects
  \/ noItemsDetected
  \/ visionReturns
  \/ mockSegmentation

Spec == Init /\ [][Next]_vars

\* the steps that need no answer from the recognition service and no user:
\* local file operations, the loop, timers, and the background removal,
\* which its own 30 s timer bounds
LocalStep ==
  \/ imageInfo
  \/ readImage
  \/ processObject
  \/ cropSucceeds
  \/ cropFails
  \/ removeBackgroundResolves
  \/ removeBackgroundRejects
  \/ noItemsDetected
  \/ visionReturns
  \/ mockSegmentation

\* the upload flow when every step that can be taken locally is eventually
\* taken; nothing obliges the recognition service to answer
SpecLive == Init /\ [][Next]_vars /\ WF_vars(LocalStep)

\* the upload flow together with the subscription's usage counter
NextUpload ==
  \/ Next
  \/ incrementSegmentationCount

SpecUpload == Init /\ [][NextUpload]_vars

\* the upload flow together with the user's answer to the result alert
NextSave ==
  \/ Next
  \/ alertSaveAll
  \/ alertCancel
  \/ saveSegmentedItem
  \/ saveAllDone

SpecSave == Init /\ [][NextSave]_vars

(***************************************************************************)
(* The Category Mapper on its own: labels are built from words the         *)
(* detection service uses, or taken from the documented examples, and      *)
(* mapGoogleLabelToCategory is applied to them.                            *)
(***************************************************************************)
Words ==
  { <<"P","e","r","s","o","n">>, <<"W","o","m","a","n">>, <<"w","e","a","r","i","n","g">>, <<"r","e","d">>, <<"s","h","i","r","t">>, <<"R","u","n","n","i","n","g">>, <<"s","h","o","e">>,
    <<"E","v","e","n","i","n","g">>, <<"g","o","w","n">>, <<"U","m","b","r","e","l","l","a">>, <<"D","r","e","s","s">>, <<"T","o","p">>, <<"c","o","a","t">>, <<"H","a","n","d","b","a","g">> }

ExampleLabels ==
  { <<"P","e","r","s","o","n"," ","w","e","a","r","i","n","g"," ","r","e","d"," ","s","h","i","r","t">>, <<"R","u","n","n","i","n","g"," ","s","h","o","e">>, <<"E","v","e","n","i","n","g"," ","g","o","w","n">>,
    <<"U","m","b","r","e","l","l","a">>, <<"R","e","d"," ","d","r","e","s","s">>, <<"S","k","y">> }

wordCount(label) ==
  IF label = <<>> THEN 0
  ELSE 1 + Cardinality({i \in DOMAIN label : label[i] = " "})

\* obj.name grows by one word
appendWord ==
  /\ mapResult = "unset"
  /\ wordCount(mapLabel) < MaxWords
  /\ \E w \in Words :
       mapLabel' = IF mapLabel = <<>> THEN w ELSE mapLabel \o <<" ">> \o w
  /\ UNCHANGED <<config, imageUri, segmentationsThisMonth, runVars, mapResult, auxVars>>

\* obj.name is one of the documented labels
exampleLabel ==
  /\ mapResult = "unset"
  /\ mapLabel = <<>>
  /\ \E l \in ExampleLabels : mapLabel' = l
  /\ UNCHANGED <<config, imageUri, segmentationsThisMonth, runVars, mapResult, auxVars>>

\* const category = this.mapGoogleLabelToCategory(obj.name)
applyMapper ==
  /\ mapResult = "unset"
  /\ mapResult' = mapGoogleLabelToCategory(mapLabel)
  /\ UNCHANGED <<config, imageUri, segmentationsThisMonth, runVars, mapLabel, auxVars>>

InitMap ==
  /\ Init
  /\ GOOGLE_VISION_API_KEY = ""
  /\ REMOVE_BG_API_KEY = ""

NextMap ==
  \/ appendWord
  \/ exampleLabel
  \/ applyMapper

SpecMap == InitMap /\ [][NextMap]_vars

(***************************************************************************)
(* The Coordinate Mapper on its own: one detected object's vertices arrive *)
(* as decimal literals, are read as doubles, and lines 150-157 turn them   *)
(* into a pixel rectangle.                                                 *)
(***************************************************************************)
CoordLiterals ==
  { Decimal(1, 10), Decimal(2, 10), Decimal(6, 10), Decimal(7, 10),
    Decimal(1, 8), Decimal(4, 8), Decimal(0, 8), Decimal(8, 8) }

\* const data = await response.json(), for one object's vertices 0 and 2
parseVertices ==
  /\ pxPc = "idle"
  /\ \E x0 \in CoordLiterals, y0 \in CoordLiterals,
        x2 \in CoordLiterals, y2 \in CoordLiterals, size \in ImageSizes :
       /\ pxLiteral' = << <<x0, y0>>, <<x2, y2>> >>
       /\ pxVertices' = << <<numberFromDecimal(x0), numberFromDecimal(y0)>>,
                           <<numberFromDecimal(x2), numberFromDecimal(y2)>> >>
       /\ pxSize' = size
  /\ pxPc' = "parsed"
  /\ UNCHANGED <<pipelineVars, mapVars, bgVars, storeVars, saveVars, aiVars, moreVars, pxBox>>

\* const x = ..., y = ..., width = ..., height = ...
computeBox ==
  /\ pxPc = "parsed"
  /\ pxBox' = boundingBox(pxVertices, pxSize)
  /\ pxPc' = "done"
  /\ UNCHANGED <<pipelineVars, mapVars, bgVars, storeVars, saveVars, aiVars, moreVars, pxLiteral, pxVertices, pxSize>>

NextPixel ==
  \/ parseVertices
  \/ computeBox

SpecPixel == InitMap /\ [][NextPixel]_vars

(***************************************************************************)
(* BackgroundRemovalService on its own: removeBatchBackgrounds starts one  *)
(* removeBackground per reference and the invocations interleave at their  *)
(* awaits.                                                                 *)
(***************************************************************************)
restOfBg == <<pipelineVars, mapVars, pixelVars, storeVars, saveVars, aiVars, moreVars>>

\* most milliseconds Date.now() advances during a batch
MaxClock == 2

\* a file written to documentDirectory
File(of, size) == [of |-> of, size |-> size]

\* the file system after name is written with content
writeFile(files, name, content) ==
  [n \in (DOMAIN files) \cup {name} |-> IF n = name THEN content ELSE files[n]]

\* Promise.all(imageUris.map(uri => this.removeBackground(uri))): each
\* invocation runs up to its first await (lines 28-36, 75-87, 199)
removeBatchBackgrounds ==
  /\ \A i \in Batch : bgCall[i].pc = "idle"
  /\ \E uris \in [Batch -> BgInputs] :
       bgCall' = [i \in Batch |->
                    IF RemoveBgConfigured(REMOVE_BG_API_KEY)
                      THEN [IdleCall EXCEPT !.pc = "race", !.input = uris[i],
                                            !.fetched = TRUE]
                      ELSE [IdleCall EXCEPT !.pc = "mockDelay", !.input = uris[i]]]
  /\ UNCHANGED <<restOfBg, bgNow, bgFiles>>

\* mockBackgroundRemoval after its delay
mockBackgroundRemoval(i) ==
  /\ bgCall[i].pc = "mockDelay"
  /\ bgCall' = [bgCall EXCEPT ![i].pc = "returned", ![i].result = bgCall[i].input]
  /\ UNCHANGED <<restOfBg, bgNow, bgFiles>>

\* an error with this message is thrown inside the try of line 57
bgThrowTitled(i, cause, message, title) ==
  /\ bgCall' = [bgCall EXCEPT ![i].pc = "failed", ![i].cause = cause,
                              ![i].title = title,
                              ![i].inner = removeBgCatch(message),
                              ![i].thrown = removeBackgroundCatch(removeBgCatch(message))]
  /\ UNCHANGED <<restOfBg, bgNow, bgFiles>>

\* an error raised in the try block without a response body being read
bgThrow(i, cause, message) == bgThrowTitled(i, cause, message, <<>>)

\* errorData.errors?.[0]?.title: <<>> when response.json() rejects or the
\* body has no title
titleOf(body) == IF body = NoJson THEN <<>> ELSE body

\* the 30000 ms timer wins the race of line 87
requestTimeout(i) ==
  /\ bgCall[i].pc = "race"
  /\ bgThrow(i, "timeout", REQUEST_TIMEOUT)

\* fetch rejects (no connection)
fetchRejects(i) ==
  /\ bgCall[i].pc = "race"
  /\ bgThrow(i, "network", <<"N","e","t","w","o","r","k"," ","r","e","q","u","e","s","t"," ","f","a","i","l","e","d">>)

\* the service answers with a status other than 2xx
responseNotOk(i) ==
  /\ bgCall[i].pc = "race"
  /\ \E status \in Statuses, body \in ErrorBodies :
       bgThrowTitled(i, "rejected", errorMessage(status, body), titleOf(body))

\* the service answers 200; response.blob() is awaited
responseOk(i) ==
  /\ bgCall[i].pc = "race"
  /\ bgCall' = [bgCall EXCEPT ![i].pc = "blob"]
  /\ UNCHANGED <<restOfBg, bgNow, bgFiles>>

\* lines 103-108 and the start of the FileReader
blobReceived(i) ==
  /\ bgCall[i].pc = "blob"
  /\ \/ bgThrow(i, "empty", <<"R","e","c","e","i","v","e","d"," ","e","m","p","t","y"," ","i","m","a","g","e"," ","d","a","t","a">>)
     \/ /\ bgCall' = [bgCall EXCEPT ![i].pc = "reader"]
        /\ UNCHANGED <<restOfBg, bgNow, bgFiles>>

\* the FileReader promise rejects (timeout, invalid result, onerror)
readerFails(i) ==
  /\ bgCall[i].pc = "reader"
  /\ \E m \in {<<"F","i","l","e","R","e","a","d","e","r"," ","t","i","m","e","o","u","t">>, <<"I","n","v","a","l","i","d"," ","F","i","l","e","R","e","a","d","e","r"," ","r","e","s","u","l","t">>, <<"F","i","l","e","R","e","a","d","e","r"," ","e","r","r","o","r">>} :
       bgThrow(i, "reader", m)

\* the FileReader promise resolves; lines 135-138 name the file after
\* Date.now() and start the write
readerLoads(i) ==
  /\ bgCall[i].pc = "reader"
  /\ bgCall' = [bgCall EXCEPT ![i].pc = "write", ![i].fileName = bgNow]
  /\ UNCHANGED <<restOfBg, bgNow, bgFiles>>

\* writeAsStringAsync rejects
writeRejects(i) ==
  /\ bgCall[i].pc = "write"
  /\ bgThrow(i, "write", <<"w","r","i","t","e"," ","f","a","i","l","e","d">>)

\* writeAsStringAsync resolves: the file holds the matted input, or the
\* device left it empty, or left nothing
writeResolves(i) ==
  /\ bgCall[i].pc = "write"
  /\ \/ bgFiles' = writeFile(bgFiles, bgCall[i].fileName, File(bgCall[i].input, 1))
     \/ bgFiles' = writeFile(bgFiles, bgCall[i].fileName, File(bgCall[i].input, 0))
     \/ UNCHANGED bgFiles
  /\ bgCall' = [bgCall EXCEPT ![i].pc = "info"]
  /\ UNCHANGED <<restOfBg, bgNow>>

\* lines 143-149: getInfoAsync, the exists test and the return
getInfo(i) ==
  /\ bgCall[i].pc = "info"
  /\ IF bgCall[i].fileName \in DOMAIN bgFiles
       THEN /\ bgCall' = [bgCall EXCEPT ![i].pc = "returned",
                                        ![i].result = fileUri(bgCall[i].fileName)]
            /\ UNCHANGED <<restOfBg, bgNow, bgFiles>>
       ELSE bgThrow(i, "missing", <<"F","a","i","l","e","d"," ","t","o"," ","s","a","v","e"," ","p","r","o","c","e","s","s","e","d"," ","i","m","a","g","e">>)

\* a millisecond passes
tick ==
  /\ bgNow < MaxClock
  /\ bgNow' = bgNow + 1
  /\ UNCHANGED <<restOfBg, bgFiles, bgCall>>

NextBg ==
  \/ removeBatchBackgrounds
  \/ tick
  \/ \E i \in Batch :
       \/ mockBackgroundRemoval(i)
       \/ requestTimeout(i)
       \/ fetchRejects(i)
       \/ responseNotOk(i)
       \/ responseOk(i)
       \/ blobReceived(i)
       \/ readerFails(i)
       \/ readerLoads(i)
       \/ writeRejects(i)
       \/ writeResolves(i)
       \/ getInfo(i)

InitBg ==
  /\ Init
  /\ GOOGLE_VISION_API_KEY = ""

SpecBg == InitBg /\ [][NextBg]_vars

(***************************************************************************)
(* clothingStorage on its own: save and delete are called one at a time,   *)
(* each call running to its end before the next starts.                    *)
(***************************************************************************)
restOfStore == <<pipelineVars, mapVars, pixelVars, bgVars, saveVars, aiVars, moreVars>>

StoreIds == {1, 2, 3}

\* the ClothingItem values handed to save
StoreItems ==
  [id : StoreIds, category : {"top", "dress"}, isFavorite : {FALSE}, createdAt : {Date(0)}]

\* await clothingStorage.save(item): getItem answers or throws inside
\* getAll, setItem resolves or rejects
clothingStorageSave ==
  /\ \E item \in StoreItems, readOk \in BOOLEAN, writeOk \in BOOLEAN :
       /\ clothingItems' = IF writeOk THEN save(clothingItems, item, readOk)
                                      ELSE clothingItems
       /\ stLast' = [op |-> "save", id |-> item.id, item |-> item,
                     before |-> clothingItems, readOk |-> readOk, threw |-> ~writeOk]
  /\ UNCHANGED restOfStore

\* await clothingStorage.delete(id)
clothingStorageDelete ==
  /\ \E id \in StoreIds, readOk \in BOOLEAN, writeOk \in BOOLEAN :
       /\ clothingItems' = IF writeOk THEN delete(clothingItems, id, readOk)
                                      ELSE clothingItems
       /\ stLast' = [op |-> "delete", id |-> id, item |-> <<>>,
                     before |-> clothingItems, readOk |-> readOk, threw |-> ~writeOk]
  /\ UNCHANGED restOfStore

NextStore ==
  \/ clothingStorageSave
  \/ clothingStorageDelete

SpecStore == InitMap /\ [][NextStore]_vars

(***************************************************************************)
(* AIService: the mock recognition.  Confidences are doubles.              *)
(***************************************************************************)
restOfAI == <<pipelineVars, mapVars, pixelVars, bgVars, storeVars, saveVars, moreVars>>

\* characters an image reference is made of here
UriChars == {"/", "1", "a", "b"}

\* char.charCodeAt(0)
charCodeAt(c) == CASE c = "/" -> 47 [] c = "1" -> 49 [] c = "a" -> 97 [] c = "b" -> 98

\* imageUri.split('').reduce((acc, char) => acc + char.charCodeAt(0), 0)
RECURSIVE hashOf(_)
hashOf(uri) == IF uri = <<>> THEN 0 ELSE charCodeAt(Head(uri)) + hashOf(Tail(uri))

allCategories == <<"top", "bottom", "dress", "outerwear", "shoes", "accessories">>

\* a variant that returns one or two results
numResultsUpToTwo(hash) == (hash % 2) + 1

\* line 101
numResults(hash) == (hash % 3) + 1

\* line 105, as a position of allCategories counted from 1
categoryIndex(hash, i) == ((hash + i * 7) % Len(allCategories)) + 1

\* Math.max for doubles >= 0
numberMax(a, b) == IF geqLimbs(a.mag, b.mag) THEN a ELSE b

\* lines 106 and 110: Math.max(0.5, 0.95 - (i * 0.15))
confidenceOf(i) ==
  numberMax(numberFromDecimal(Decimal(5, 10)),
            numberSubtract(numberFromDecimal(Decimal(95, 100)),
                           numberTimes(numberFromDecimal(Decimal(15, 100)), i)))

\* the results array before the sort: entries 0 .. numResults - 1
pushResults(hash) ==
  [k \in 1..numResults(hash) |->
     [category |-> allCategories[categoryIndex(hash, k - 1)], confidence |-> confidenceOf(k - 1)]]

\* (a, b) => b.confidence - a.confidence is <= 0: a stays before b
keepsOrder(a, b) == geqLimbs(a.confidence.mag, b.confidence.mag)

RECURSIVE insertResult(_, _)
insertResult(sorted, x) ==
  IF sorted = <<>> THEN <<x>>
  ELSE IF keepsOrder(Head(sorted), x)
         THEN <<Head(sorted)>> \o insertResult(Tail(sorted), x)
         ELSE <<x>> \o sorted

\* results.sort(...), stable
RECURSIVE sortResults(_)
sortResults(results) ==
  IF results = <<>> THEN <<>>
  ELSE insertResult(sortResults(SubSeq(results, 1, Len(results) - 1)), results[Len(results)])

mockRecognitionMultiple(uri) == sortResults(pushResults(hashOf(uri)))

\* the reference grows by one character
appendChar ==
  /\ aiCalls = <<>>
  /\ Len(aiUri) < MaxUriLen
  /\ \E c \in UriChars : aiUri' = Append(aiUri, c)
  /\ UNCHANGED <<restOfAI, aiCalls>>

\* await aiService.recognizeClothingCategories(imageUri), up to twice for
\* the same reference
recognizeClothingCategories ==
  /\ Len(aiCalls) < 2
  /\ aiCalls' = Append(aiCalls, mockRecognitionMultiple(aiUri))
  /\ UNCHANGED <<restOfAI, aiUri>>

NextAI ==
  \/ appendChar
  \/ recognizeClothingCategories

SpecAI == InitMap /\ [][NextAI]_vars

(***************************************************************************)
(* Properties                                                              *)
(***************************************************************************)
\* the run is over: segmentClothing has returned or thrown
RunOver == pc = "alert"

\* segmentWithGoogleVision returned its items (it did not throw)
RealPathReturned == RunOver /\ visionError = NULL

NoItemsError == "no clothing items detected"

\* what the real path can throw before or while talking to the service
RealPathExceptions ==
  { "Google Cloud Vision API Key not configured", "manipulateAsync failed",
    "readAsStringAsync failed", "Network request failed",
    "API call failed: status", "malformed payload" }

\* the fixed two-item mock set over the image reference uri
IsMockSet(its, uri) ==
  /\ Len(its) = 2
  /\ its[1].category = "top" /\ its[1].confidence = 95000 /\ its[1].imageUri = uri
  /\ its[2].category = "bottom" /\ its[2].confidence = 92000 /\ its[2].imageUri = uri

\* C1: when the service call succeeded and no candidate survived filtering,
\* segmentClothing fails with the no-results error and does not return the
\* mock items.
C1_NoResultsFails ==
  (RunOver /\ visionError = NoItemsError)
    => (thrown = NoItemsError /\ ~IsMockSet(segmentedItems, segImageUri))

\* C2: when the real path raises an exception (missing credential, I/O
\* failure, network failure, non-2xx status, malformed payload),
\* segmentClothing throws nothing and returns exactly the mock set: top 0.95
\* then bottom 0.92, each over the input image reference.
C2_ExceptionYieldsMock ==
  (RunOver /\ visionError \in RealPathExceptions)
    => (thrown = NULL /\ IsMockSet(segmentedItems, segImageUri))

C2_Witness ==
  /\ RunOver
  /\ visionError = "malformed payload"
  /\ items # <<>>
  /\ segImageUri \in PhotoUris
  /\ segImageUri # imageUri

\* C3: the recognition service is never invoked in a run that started while
\* the subscription's canUseSegmentation pre-check answered denied.
C3_DeniedNeverInvokes == ("fetch" \in calls) => quotaAtStart

\* a returned candidate that passes the three filters of the claim
Qualifies(obj) ==
  /\ obj.score >= 30000
  /\ mapGoogleLabelToCategory(obj.name) # NULL
  /\ pixelBox(obj, imageSize).width > 0
  /\ pixelBox(obj, imageSize).height > 0

NoCropFailed == \A k \in DOMAIN log : log[k].outcome # "crop failed"

\* C4: when the service call and every crop succeed, the real path's output
\* holds exactly one item per returned candidate with score >= 0.3, a mapped
\* category and a rectangle of positive width and height, and nothing else;
\* each item carries its candidate's category and score.
C4_ExactlyQualifying ==
  (RealPathReturned /\ NoCropFailed) =>
    LET Q == {i \in DOMAIN annotations : Qualifies(annotations[i])}
    IN  /\ \E f \in [DOMAIN segmentedItems -> Q] :
             /\ \A a, b \in DOMAIN segmentedItems : f[a] = f[b] => a = b
             /\ \A q \in Q : \E a \in DOMAIN segmentedItems : f[a] = q
             /\ \A a \in DOMAIN segmentedItems :
                  /\ segmentedItems[a].category =
                       mapGoogleLabelToCategory(annotations[f[a]].name)
                  /\ segmentedItems[a].confidence = annotations[f[a]].score
        /\ (annotations = << Obj(<<"P","e","r","s","o","n">>, 90000, BigBox),
                             Obj(<<"R","e","d"," ","d","r","e","s","s">>, 80000, BigBox) >>)
             => /\ Len(segmentedItems) = 1
                /\ segmentedItems[1].category = "dress"
                /\ segmentedItems[1].confidence = 80000

C4_Witness ==
  /\ RealPathReturned
  /\ NoCropFailed
  /\ annotations = << Obj(<<"P","e","r","s","o","n">>, 90000, BigBox),
                      Obj(<<"R","e","d"," ","d","r","e","s","s">>, 80000, BigBox) >>
  /\ Len(segmentedItems) = 1

\* C5 as stated: a candidate whose crop succeeded and whose background
\* removal failed is in the final result, with the plain-crop reference as
\* its imageUri.
C5_AlwaysInFinalResult ==
  \A k \in DOMAIN log :
    (log[k].outcome = "background removal failed" /\ RunOver) =>
      \E j \in DOMAIN segmentedItems :
        /\ segmentedItems[j].imageUri = log[k].cropped
        /\ segmentedItems[j].confidence = log[k].obj.score

\* C5, amended: a candidate whose crop succeeded and whose background removal
\* failed is pushed to the items with the plain-crop reference as its
\* imageUri, and is in the final result whenever segmentWithGoogleVision
\* returns its items (a malformed later candidate makes it throw, and the
\* caller then gets the mock set).
C5_BackgroundFailureKeepsCrop ==
  \A k \in DOMAIN log :
    log[k].outcome = "background removal failed" =>
      /\ \E j \in DOMAIN items :
           /\ items[j].imageUri = log[k].cropped
           /\ items[j].imageUri.op = "crop"
           /\ items[j].confidence = log[k].obj.score
      /\ RealPathReturned =>
           \E j \in DOMAIN segmentedItems :
             /\ segmentedItems[j].imageUri = log[k].cropped
             /\ segmentedItems[j].imageUri.op = "crop"
             /\ segmentedItems[j].confidence = log[k].obj.score

C5_Witness ==
  /\ RealPathReturned
  /\ \E k \in DOMAIN log : log[k].outcome = "background removal failed"
  /\ \E k \in DOMAIN log : log[k].outcome = "background removed"

\* C6: the items the real path returns are in descending score order: each
\* item's confidence is at least the next one's.
C6_DescendingConfidence ==
  /\ \A j \in 1..(Len(items) - 1) : items[j].confidence >= items[j + 1].confidence
  /\ RealPathReturned =>
       \A j \in 1..(Len(segmentedItems) - 1) :
         segmentedItems[j].confidence >= segmentedItems[j + 1].confidence

C6_Witness ==
  /\ RealPathReturned
  /\ Len(annotations) = 2
  /\ annotations[1].score < annotations[2].score
  /\ Len(segmentedItems) = 2
  /\ segmentedItems[1].confidence > segmentedItems[2].confidence

\* C7: the confidence floor is inclusive: a candidate with score below 0.3 is
\* dropped by the confidence filter and never becomes an item; a candidate
\* with score exactly 0.3 passes the confidence filter.
C7_InclusiveFloor ==
  /\ \A k \in DOMAIN log :
       /\ log[k].obj.score < 30000 => log[k].outcome = "low confidence"
       /\ log[k].obj.score = 30000 => log[k].outcome # "low confidence"
  /\ \A j \in DOMAIN items : items[j].confidence >= 30000
  /\ (pc \in {"crop", "removeBackground"}) => sortedObjects[idx].score >= 30000

C7_Witness ==
  /\ RealPathReturned
  /\ \E j \in DOMAIN segmentedItems : segmentedItems[j].confidence = 30000
  /\ \E k \in DOMAIN log :
       log[k].obj.score = 29999 /\ log[k].outcome = "low confidence"

\* C8: with the recognition credential absent or equal to the placeholder,
\* the run sends no request and reads no image data, and the caller gets the
\* mock set, not an error.
C8_UnconfiguredMakesNoCall ==
  (GOOGLE_VISION_API_KEY \in {"", "YOUR_GOOGLE_CLOUD_VISION_API_KEY"}) =>
    /\ calls = {}
    /\ thrown = NULL
    /\ pc \in {"idle", "mock", "alert"} \cup AfterAlert
    /\ RunOver => IsMockSet(segmentedItems, segImageUri)

C8_Witness ==
  /\ RunOver
  /\ GOOGLE_VISION_API_KEY = "YOUR_GOOGLE_CLOUD_VISION_API_KEY"
  /\ IsMockSet(segmentedItems, segImageUri)

\* the lower-cased label contains one of the exclusion substrings
ContainsExclusion(label) ==
  \E k \in { <<"p","e","r","s","o","n">>, <<"p","e","o","p","l","e">>, <<"h","u","m","a","n">>, <<"m","a","n">>, <<"w","o","m","a","n">>, <<"b","o","y">>, <<"g","i","r","l">>,
             <<"f","a","c","e">>, <<"h","e","a","d">>, <<"b","o","d","y">>, <<"h","a","n","d">>, <<"l","e","g">>, <<"a","r","m">>, <<"f","o","o","t">> } :
    includes(toLowerCase(label), k)

MatchingEntries(label) ==
  {i \in DOMAIN categoryMap : includes(toLowerCase(label), categoryMap[i][1])}

ExactScaled(lit, size) == (lit.num * size) \div lit.den

\* floor((b - a) * size) in exact arithmetic
ExactSpan(a, b, size) == ((b.num * a.den - a.num * b.den) * size) \div (a.den * b.den)

\* the rectangle the four formulas denote for the literals of the response
ExactRectangle(lits, size) ==
  [ x      |-> ExactScaled(lits[1][1], size[1]),
    y      |-> ExactScaled(lits[1][2], size[2]),
    width  |-> ExactSpan(lits[1][1], lits[2][1], size[1]),
    height |-> ExactSpan(lits[1][2], lits[2][2], size[2]) ]

ExampleQuad ==
  << <<Decimal(1, 10), Decimal(2, 10)>>, <<Decimal(6, 10), Decimal(7, 10)>> >>

\* C11: for every normalized quad and image size the computed rectangle is
\* x = floor(topLeft.x * W), y = floor(topLeft.y * H),
\* width = floor((bottomRight.x - topLeft.x) * W),
\* height = floor((bottomRight.y - topLeft.y) * H); for topLeft = (0.1, 0.2),
\* bottomRight = (0.6, 0.7) on a 1000x1000 image it is
\* {x: 100, y: 200, width: 500, height: 500}.
C11_PixelRectangle ==
  pxPc = "done" =>
    /\ pxBox = ExactRectangle(pxLiteral, pxSize)
    /\ (pxLiteral = ExampleQuad /\ pxSize = <<1000, 1000>>) =>
         pxBox = [x |-> 100, y |-> 200, width |-> 500, height |-> 500]

\* on coordinates that are eighths no rounding happens, and the rectangle on
\* doubles is the one pixelBox computes on eighths
PixelBoxOnEighths ==
  (pxPc = "done" /\ \A v \in 1..2, c \in 1..2 : pxLiteral[v][c].den = 8) =>
    pxBox = pixelBox([box |-> [v0 |-> <<pxLiteral[1][1].num, pxLiteral[1][2].num>>,
                               v2 |-> <<pxLiteral[2][1].num, pxLiteral[2][2].num>>]],
                     pxSize)

\* outcomes of the candidates for which cropImageRegion was called
CropAttempted ==
  {"crop failed", "background removed", "background kept", "background removal failed"}

\* C12: a candidate whose computed width or height is <= 0 is dropped and the
\* loop goes on (the drop raises nothing); no crop is attempted for it: every
\* call of cropImageRegion gets a rectangle with width > 0 and height > 0.
C12_CropOnlyPositive ==
  /\ pc = "crop" =>
       /\ pixelBox(sortedObjects[idx], imageSize).width > 0
       /\ pixelBox(sortedObjects[idx], imageSize).height > 0
  /\ \A k \in DOMAIN log :
       LET box == pixelBox(log[k].obj, imageSize)
       IN  /\ log[k].outcome \in CropAttempted => (box.width > 0 /\ box.height > 0)
           /\ (box.width <= 0 \/ box.height <= 0) =>
                /\ log[k].outcome \in {"low confidence", "not clothing", "invalid dimensions"}
                /\ log[k].cropped = NoUri
                /\ k = Len(log) => idx = k + 1
                /\ visionError \in {NULL, NoItemsError, "malformed payload"}
  /\ \A i \in DOMAIN items :
       items[i].boundingBox.width > 0 /\ items[i].boundingBox.height > 0

C12_Witness ==
  /\ RealPathReturned
  /\ \E k \in DOMAIN log :
       /\ log[k].outcome = "invalid dimensions"
       /\ log[k].box.width = 0
       /\ log[k].box.height > 0
       /\ \E j \in DOMAIN log : j > k /\ log[j].outcome \in CropAttempted
  /\ segmentedItems # <<>>

\* C13: with a matting credential configured, a removeBackground call whose
\* request is not answered within 30 seconds fails, and the error it throws
\* differs from the error thrown when the service rejects the request with a
\* non-200 response, so the caller can tell the two apart.
C13_TimeoutDistinguishable ==
  \A i \in Batch :
    bgCall[i].cause = "timeout" =>
      /\ bgCall[i].pc = "failed"
      /\ \A j \in Batch :
           bgCall[j].cause = "rejected" => bgCall[j].thrown # bgCall[i].thrown

\* C14: on the real path removeBackground returns a reference only when the
\* file it designates exists and has size > 0; a missing or zero-byte file
\* makes the call fail.
C14_ReturnedArtifactVerified ==
  \A i \in Batch :
    (bgCall[i].pc = "returned" /\ bgCall[i].fetched) =>
      /\ bgCall[i].fileName \in DOMAIN bgFiles
      /\ bgFiles[bgCall[i].fileName].size > 0

\* C15: when REMOVE_BG_API_KEY is absent or the placeholder, removeBackground
\* sends no request, writes no file, does not fail, and returns exactly the
\* reference it was given, for every input reference.
C15_UnconfiguredReturnsInput ==
  REMOVE_BG_API_KEY \in {"", "YOUR_REMOVE_BG_API_KEY"} =>
    /\ bgFiles = <<>>
    /\ \A i \in Batch :
         /\ ~bgCall[i].fetched
         /\ bgCall[i].pc \in {"idle", "mockDelay", "returned"}
         /\ bgCall[i].pc = "returned" => bgCall[i].result = bgCall[i].input

C15_Witness ==
  /\ REMOVE_BG_API_KEY = "YOUR_REMOVE_BG_API_KEY"
  /\ \A i \in Batch : bgCall[i].pc = "returned" /\ bgCall[i].result = bgCall[i].input
  /\ bgCall[1].input # bgCall[2].input

\* C16: concurrent invocations share no mutable state: in every interleaving
\* the reference an invocation returns designates a file produced from that
\* invocation's own input, and no invocation writes the file of another.
C16_InvocationsIndependent ==
  /\ \A i \in Batch :
       (bgCall[i].pc = "returned" /\ bgCall[i].fetched
          /\ bgCall[i].fileName \in DOMAIN bgFiles) =>
         bgFiles[bgCall[i].fileName].of = bgCall[i].input
  /\ \A i, j \in Batch :
       (i # j /\ bgCall[i].fileName # 0 /\ bgCall[j].fileName # 0) =>
         bgCall[i].fileName # bgCall[j].fileName

\* the record handleSaveSegmentedItems stores for a segmented item
StoredFrom(record, item) ==
  /\ record.imageUri = item.imageUri
  /\ record.category = item.category

\* C17: no segmented item is written to storage before segmentClothing has
\* returned and the user has chosen "save all": whenever the store holds a
\* record, the run is past its result alert through the save-all button, and
\* every stored record is one of the items segmentClothing returned, taken in
\* the order of the save loop.
C17_SaveOnlyAfterConfirmation ==
  /\ (pc \notin AfterAlert \ {"dismissed"}) => (clothingItems = <<>> /\ saveArg = <<>>)
  /\ (pc \in AfterAlert \ {"dismissed"}) =>
       /\ saveArg # <<>>
       /\ saveArg = (IF visionError = NULL THEN items ELSE mockItems(segImageUri))
       /\ Len(clothingItems) < saveIdx
       /\ \A k \in DOMAIN clothingItems :
            \E j \in 1..(saveIdx - 1) : StoredFrom(clothingItems[k], saveArg[j])

C17_Witness ==
  /\ pc = "saved"
  /\ visionError = NULL
  /\ Len(clothingItems) = 2
  /\ StoredFrom(clothingItems[1], saveArg[1])
  /\ StoredFrom(clothingItems[2], saveArg[2])

\* the list with every record of this id removed
Without(list, id) == SelectSeq(list, LAMBDA r : r.id # id)

\* the last call returned without throwing
Returned(op) == stLast.op = op /\ ~stLast.threw

\* what the last call must leave in the store, given what it found there
ExpectedStore ==
  LET before == stLast.before
      item   == jsonItem(stLast.item)
  IN  IF stLast.op = "delete" THEN Without(before, stLast.id)
      ELSE IF \E k \in DOMAIN before : before[k].id = stLast.id
        THEN [k \in DOMAIN before |-> IF before[k].id = stLast.id THEN item ELSE before[k]]
        ELSE Append(before, item)

\* C18: after any sequence of save and delete calls made one at a time on a
\* store with distinct ids, the store holds at most one record per id;
\* save(item) replaced the whole record of that id in place when there was
\* one and appended the item otherwise; delete(id) left no record of that id
\* and kept all the others.
C18_ReplaceById ==
  /\ \A j, k \in DOMAIN clothingItems :
       clothingItems[j].id = clothingItems[k].id => j = k
  /\ (Returned("save") \/ Returned("delete")) => clothingItems = ExpectedStore

\* the same statement for the calls whose read of the store succeeded
ReplaceByIdWhenRead ==
  /\ \A j, k \in DOMAIN clothingItems :
       clothingItems[j].id = clothingItems[k].id => j = k
  /\ ((Returned("save") \/ Returned("delete")) /\ stLast.readOk) =>
       clothingItems = ExpectedStore

\* the double nearest to hundredths / 100
Hundredths(n) == numberFromDecimal(Decimal(n, 100))

\* a > b for doubles >= 0
Above(a, b) == geqLimbs(a.mag, b.mag) /\ a # b

\* C19: the mock recognition result depends on the image reference string
\* only: with S the sum of its character codes it has (S mod 3) + 1 entries,
\* entry i (from 0) has confidence max(0.5, 0.95 - 0.15*i) and category
\* sixCategoryList[(S + 7*i) mod 6], the entries are in descending
\* confidence, and two calls with the same string return identical ordered
\* results.
C19_MockRecognition ==
  \A c \in DOMAIN aiCalls :
    LET S      == hashOf(aiUri)
        result == aiCalls[c]
    IN  /\ Len(result) = (S % 3) + 1
        /\ \A k \in DOMAIN result :
             /\ result[k].category = allCategories[((S + 7 * (k - 1)) % 6) + 1]
             /\ result[k].confidence =
                  numberMax(Hundredths(50),
                            numberSubtract(Hundredths(95), numberTimes(Hundredths(15), k - 1)))
             /\ geqLimbs(result[k].confidence.mag, Hundredths(50).mag)
             /\ k > 1 => Above(result[k - 1].confidence, result[k].confidence)
        /\ result[1].confidence = Hundredths(95)
        /\ result = aiCalls[1]

C19_Witness ==
  /\ Len(aiCalls) = 2
  /\ aiCalls[1] = aiCalls[2]
  /\ Len(aiCalls[1]) = 3
  /\ aiCalls[1][1].category # aiCalls[1][2].category
  /\ Above(aiCalls[1][2].confidence, aiCalls[1][3].confidence)

\* C20: every segmentClothing invocation eventually completes; in particular
\* a recognition request that is never answered expires and the run ends
\* with the mock result set.
C20_EventuallyCompletes == (pc = "fetch") ~> RunOver

\* the steps before and after the request do end: from every point of a run
\* other than the pending request, the run reaches the request or completes
CompletesAroundFetch == (pc \notin {"idle", "fetch"}) ~> (pc = "fetch" \/ RunOver)

(***************************************************************************)
(* cropImageRegion on its own: the method takes any box, so every          *)
(* rectangle is handed to it here, also ones the loop of                   *)
(* segmentWithGoogleVision never builds.                                   *)
(***************************************************************************)
\* the state of the subsystems above
earlierVars == <<pipelineVars, mapVars, pixelVars, bgVars, storeVars, saveVars, aiVars>>

restOfCrop == <<earlierVars, payVars, conVars, rateVars, subVars>>

\* largest magnitude, in pixels, of a field of the box argument
MaxPixel == 2

\* the values of a field of box, in halves of a pixel
HalfPixels == (0 - 2 * MaxPixel) .. (2 * MaxPixel)

\* Math.floor of a value in halves, in halves
floorHalves(h) == 2 * (h \div 2)

\* Math.max
mathMax(a, b) == IF a >= b THEN a ELSE b

\* a variant that floors the size without clamping it
cropRegionOriginOnly(box) ==
  [ originX |-> mathMax(0, floorHalves(box.x)),
    originY |-> mathMax(0, floorHalves(box.y)),
    width   |-> floorHalves(box.width),
    height  |-> floorHalves(box.height) ]

\* const crop = { originX, originY, width, height } of lines 289-294
cropRegion(box) ==
  [ originX |-> mathMax(0, floorHalves(box.x)),
    originY |-> mathMax(0, floorHalves(box.y)),
    width   |-> mathMax(2, floorHalves(box.width)),
    height  |-> mathMax(2, floorHalves(box.height)) ]

\* cropImageRegion(imageUri, box) up to await ImageManipulator.manipulateAsync
cropImageRegion ==
  /\ cropPc = "idle"
  /\ \E x \in HalfPixels, y \in HalfPixels, width \in HalfPixels, height \in HalfPixels :
       LET box == [x |-> x, y |-> y, width |-> width, height |-> height]
       IN  /\ cropBox' = box
           /\ cropArg' = cropRegion(box)
  /\ cropPc' = "manipulateAsync"
  /\ UNCHANGED restOfCrop

\* manipulateAsync resolves: return manipResult.uri
manipulateResolves ==
  /\ cropPc = "manipulateAsync"
  /\ cropPc' = "returned"
  /\ UNCHANGED <<restOfCrop, cropBox, cropArg>>

\* manipulateAsync rejects: catch (error) { throw error }
manipulateRejects ==
  /\ cropPc = "manipulateAsync"
  /\ cropPc' = "thrown"
  /\ UNCHANGED <<restOfCrop, cropBox, cropArg>>

NextCrop ==
  \/ cropImageRegion
  \/ manipulateResolves
  \/ manipulateRejects

SpecCrop == InitMap /\ [][NextCrop]_vars

\* a whole number of pixels, for a value in halves
WholePixels(h) == h % 2 = 0

\* a rectangle that needs no clamping: whole numbers, origin >= 0, size >= 1
WithinCropBounds(box) ==
  /\ \A f \in {"x", "y", "width", "height"} : WholePixels(box[f])
  /\ box.x >= 0 /\ box.y >= 0
  /\ box.width >= 2 /\ box.height >= 2

\* C21: the region cropImageRegion hands to the image manipulator has whole
\* originX >= 0, originY >= 0, width >= 1 and height >= 1; an origin
\* component below 0 becomes 0 and a size component below 1 becomes 1; a
\* rectangle already within those bounds is handed over unchanged.
C21_CropRegionClamped ==
  cropPc # "idle" =>
    /\ \A f \in {"originX", "originY", "width", "height"} : WholePixels(cropArg[f])
    /\ cropArg.originX >= 0 /\ cropArg.originY >= 0
    /\ cropArg.width >= 2 /\ cropArg.height >= 2
    /\ cropBox.x < 0 => cropArg.originX = 0
    /\ cropBox.y < 0 => cropArg.originY = 0
    /\ cropBox.width < 2 => cropArg.width = 2
    /\ cropBox.height < 2 => cropArg.height = 2
    /\ WithinCropBounds(cropBox) =>
         cropArg = [originX |-> cropBox.x, originY |-> cropBox.y,
                    width |-> cropBox.width, height |-> cropBox.height]

C21_Witness ==
  /\ cropPc = "returned"
  /\ cropBox.x = 0 - 3 /\ cropArg.originX = 0
  /\ cropBox.y = 2 /\ cropArg.originY = 2
  /\ cropBox.width = 1 /\ cropArg.width = 2
  /\ cropBox.height = 4 /\ cropArg.height = 4

\* outcomes of the candidates that were cropped and pushed to the items
CropSucceeded == {"background removed", "background kept", "background removal failed"}

\* position in sortedObjects of the candidate an item was cropped from
CandidateOf(item) == item.imageUri.n

C23_TitleVerbatim ==
  \A i \in Batch :
    (bgCall[i].cause = "rejected" /\ bgCall[i].title # <<>>) =>
      /\ bgCall[i].pc = "failed"
      /\ bgCall[i].thrown = bgCall[i].title

\* what removeBackgroundWithRemoveBg itself throws is the title only when
\* the title contains "API"
InnerKeepsApiTitles ==
  \A i \in Batch :
    (bgCall[i].cause = "rejected" /\ bgCall[i].title # <<>>) =>
      bgCall[i].inner = (IF includes(bgCall[i].title, <<"A","P","I">>)
                           THEN bgCall[i].title ELSE RETRY_MESSAGE)

\* C24: a saved clothing item has a transparentImageUri only when background
\* removal produced a new artifact for it; not when removal was
\* unconfigured, failed, or the item came from the mock segmentation.
C24_TransparentOnlyWhenRemoved ==
  \A k \in DOMAIN clothingItems :
    clothingItems[k].transparentImageUri # NoUri =>
      clothingItems[k].transparentImageUri.op = "bg_removed"

\* every record the save loop writes names its own image as the transparent
\* one, whatever produced that image
TransparentIsImageUri ==
  \A k \in DOMAIN clothingItems :
    clothingItems[k].transparentImageUri = clothingItems[k].imageUri

(***************************************************************************)
(* PaymentService on its own: processPayment and cancelPayment invocations *)
(* interleave at their awaits.  The records of paymentHistory are objects  *)
(* shared by reference: processDemoPayment, cancelPayment and the array    *)
(* hold the same record, named here by its id.                             *)
(***************************************************************************)
restOfPay == <<earlierVars, cropVars, conVars, rateVars, subVars>>

\* this.paymentHistory.find(p => p.id === id) finds a record
hasRecord(history, id) == \E k \in DOMAIN history : history[k].id = id

\* the status of the record with this id
statusOf(history, id) == history[CHOOSE k \in DOMAIN history : history[k].id = id].status

\* record.status = status, on the shared record
setStatus(history, id, status) ==
  [k \in DOMAIN history |->
     IF history[k].id = id THEN [history[k] EXCEPT !.status = status] ELSE history[k]]

\* savePaymentHistory: secureStorage.setItem stringifies the history as it is
\* at the call (part_004 lines 30-37); a rejected write is logged and
\* swallowed (lines 652-660)
savePaymentHistory(history) ==
  \E ok \in BOOLEAN :
    /\ payStored' = (IF ok THEN history ELSE payStored)
    /\ payWriteFailed' = (payWriteFailed \/ ~ok)

\* updatePaymentRecord(record): index !== -1 guards the write
updatePaymentRecord(history, id) ==
  IF hasRecord(history, id)
    THEN savePaymentHistory(history)
    ELSE UNCHANGED <<payStored, payWriteFailed>>

\* one more event in the life of payment id
noteEvent(id, event) == payEvents' = [payEvents EXCEPT ![id] = Append(@, event)]

\* processPayment(request) up to await this.savePaymentHistory() of line 319
processPayment(p) ==
  /\ payProc[p].pc = "idle"
  /\ \E route \in Routes, tier \in PaidTiers :
       LET record == [id |-> p, status |-> "pending", subscriptionTier |-> tier]
       IN  /\ paymentHistory' = Append(paymentHistory, record)
           /\ savePaymentHistory(Append(paymentHistory, record))
           /\ payProc' = [payProc EXCEPT ![p] = [pc |-> "savePaymentHistory",
                                                 route |-> route, success |-> FALSE]]
  /\ UNCHANGED <<restOfPay, payCancel, payEvents, subscribedTier>>

\* the first save is over: processDemoPayment starts its delay(1500), or
\* processRealPayment marks the record failed (every real method is a
\* placeholder that fails, lines 393-531)
historySaved(p) ==
  /\ payProc[p].pc = "savePaymentHistory"
  /\ IF payProc[p].route = "demo"
       THEN /\ payProc' = [payProc EXCEPT ![p].pc = "delay"]
            /\ UNCHANGED paymentHistory
       ELSE /\ paymentHistory' = setStatus(paymentHistory, p, "failed")
            /\ payProc' = [payProc EXCEPT ![p].pc = "result", ![p].success = FALSE]
  /\ UNCHANGED <<restOfPay, payStored, payCancel, payEvents, payWriteFailed, subscribedTier>>

\* lines 364-387: record.status = 'completed' or 'failed', whatever the
\* status is by now
demoOutcome(p, success) ==
  /\ paymentHistory' = setStatus(paymentHistory, p,
                                 IF success THEN "completed" ELSE "failed")
  /\ IF success THEN noteEvent(p, "completed") ELSE UNCHANGED payEvents
  /\ payProc' = [payProc EXCEPT ![p].pc = "result", ![p].success = success]

\* the delay of processDemoPayment is over; Math.random() > 0.1 decides
delayOver(p) ==
  /\ payProc[p].pc = "delay"
  /\ \E success \in BOOLEAN : demoOutcome(p, success)
  /\ UNCHANGED <<restOfPay, payStored, payCancel, payWriteFailed, subscribedTier>>

\* lines 331-338: a successful result is recorded, a failed one is returned
\* as it is
resultReady(p) ==
  /\ payProc[p].pc = "result"
  /\ IF payProc[p].success
       THEN /\ updatePaymentRecord(paymentHistory, p)
            /\ payProc' = [payProc EXCEPT ![p].pc = "updatePaymentRecord"]
       ELSE /\ payProc' = [payProc EXCEPT ![p].pc = "returned"]
            /\ UNCHANGED <<payStored, payWriteFailed>>
  /\ UNCHANGED <<restOfPay, paymentHistory, payCancel, payEvents, subscribedTier>>

\* line 335: subscriptionService.upgradeTo(request.subscriptionTier) sets
\* currentSubscription before its own await
recordUpdated(p) ==
  /\ payProc[p].pc = "updatePaymentRecord"
  /\ subscribedTier' =
       paymentHistory[CHOOSE k \in DOMAIN paymentHistory : paymentHistory[k].id = p].subscriptionTier
  /\ noteEvent(p, "upgradeTo")
  /\ payProc' = [payProc EXCEPT ![p].pc = "upgradeTo"]
  /\ UNCHANGED <<restOfPay, paymentHistory, payStored, payCancel, payWriteFailed>>

\* upgradeTo resolves: return result
upgradeReturns(p) ==
  /\ payProc[p].pc = "upgradeTo"
  /\ payProc' = [payProc EXCEPT ![p].pc = "returned"]
  /\ UNCHANGED <<restOfPay, paymentHistory, payStored, payCancel, payEvents,
                 payWriteFailed, subscribedTier>>

\* cancelPayment(paymentId) up to await this.getPaymentById(paymentId); a
\* run makes one such call per payment, at any moment
cancelPayment(id) ==
  /\ payCancel[id].pc = "idle"
  /\ payCancel' = [payCancel EXCEPT ![id] = [pc |-> "getPaymentById",
                                             found |-> hasRecord(paymentHistory, id),
                                             returned |-> FALSE]]
  /\ UNCHANGED <<restOfPay, paymentHistory, payStored, payProc, payEvents,
                 payWriteFailed, subscribedTier>>

\* lines 588-598: a pending or processing payment becomes cancelled and is
\* written; anything else returns false
cancelResumes(id) ==
  /\ payCancel[id].pc = "getPaymentById"
  /\ IF payCancel[id].found /\ statusOf(paymentHistory, id) \in {"pending", "processing"}
       THEN /\ paymentHistory' = setStatus(paymentHistory, id, "cancelled")
            /\ updatePaymentRecord(setStatus(paymentHistory, id, "cancelled"), id)
            /\ payCancel' = [payCancel EXCEPT ![id].pc = "updatePaymentRecord"]
       ELSE /\ payCancel' = [payCancel EXCEPT ![id] = [pc |-> "returned", found |-> FALSE,
                                                  returned |-> FALSE]]
            /\ UNCHANGED <<paymentHistory, payStored, payWriteFailed>>
  /\ UNCHANGED <<restOfPay, payProc, payEvents, subscribedTier>>

\* line 595: return true
cancelReturns(id) ==
  /\ payCancel[id].pc = "updatePaymentRecord"
  /\ payCancel' = [payCancel EXCEPT ![id] = [pc |-> "returned", found |-> FALSE,
                                             returned |-> TRUE]]
  /\ noteEvent(id, "cancelled")
  /\ UNCHANGED <<restOfPay, paymentHistory, payStored, payProc, payWriteFailed,
                 subscribedTier>>

NextPay ==
  \E p \in PaymentIds :
    \/ processPayment(p)
    \/ historySaved(p)
    \/ delayOver(p)
    \/ resultReady(p)
    \/ recordUpdated(p)
    \/ upgradeReturns(p)
    \/ cancelPayment(p)
    \/ cancelResumes(p)
    \/ cancelReturns(p)

SpecPay == InitMap /\ [][NextPay]_vars

\* event b of payment id came after its event a
EventAfter(id, a, b) ==
  \E i, j \in DOMAIN payEvents[id] :
    i < j /\ payEvents[id][i] = a /\ payEvents[id][j] = b

\* C25: once cancelPayment(id) has returned true, the payment does not
\* afterwards reach status completed and causes no subscription upgrade,
\* however cancelPayment interleaves with the processPayment of that record.
C25_CancelledStaysCancelled ==
  \A id \in PaymentIds :
    /\ ~EventAfter(id, "cancelled", "completed")
    /\ ~EventAfter(id, "cancelled", "upgradeTo")

\* C28: when processPayment has returned and no storage write failed, the
\* persisted history holds the payment with the status the in-memory history
\* has for it, for successful and failed outcomes alike.
C28_PersistedMatchesMemory ==
  \A p \in PaymentIds :
    (payProc[p].pc = "returned" /\ ~payWriteFailed) =>
      /\ hasRecord(payStored, p)
      /\ statusOf(payStored, p) = statusOf(paymentHistory, p)

\* a payment that completed with no cancelPayment call for it is persisted
\* as completed
CompletedIsPersisted ==
  \A p \in PaymentIds :
    (/\ payProc[p].pc = "returned"
     /\ payProc[p].success
     /\ payCancel[p].pc = "idle"
     /\ ~payWriteFailed) =>
      /\ hasRecord(payStored, p)
      /\ statusOf(payStored, p) = "completed"

(***************************************************************************)
(* clothingStorage under concurrency: two calls among save, delete and     *)
(* toggleFavorite are in flight together and interleave at their awaits.   *)
(* Reads and writes of AsyncStorage succeed here.                          *)
(***************************************************************************)
restOfCon == <<pipelineVars, mapVars, pixelVars, bgVars, saveVars, aiVars, stLast,
               cropVars, payVars, rateVars, subVars>>

\* the ids the two calls are about
ConIds == {1, 2}

\* the ClothingItem values handed to save
ConItems == {item \in StoreItems : item.id \in ConIds}

\* stored lists left by earlier, completed save calls
SeedLists ==
  LET first  == [id |-> 1, category |-> "top", isFavorite |-> FALSE, createdAt |-> Date(0)]
      second == [id |-> 2, category |-> "dress", isFavorite |-> FALSE, createdAt |-> Date(0)]
  IN  {jsonItems(<<first>>), jsonItems(<<first, second>>)}

\* toggleFavorite run alone on a stored list (lines 413-418)
toggleFavorite(stored, id) ==
  LET list  == getAll(stored, TRUE)
      index == findIndex(list, id)
  IN  IF index = 0 THEN stored
      ELSE save(stored, [list[index] EXCEPT !.isFavorite = ~@], TRUE)

\* earlier calls have left a list in the store
storeFilled ==
  /\ \A c \in Callers : conCall[c].pc = "idle"
  /\ clothingItems = <<>>
  /\ \E list \in SeedLists : clothingItems' = list
  /\ UNCHANGED <<restOfCon, conVars>>

\* save(item), delete(id) or toggleFavorite(id) is called: each starts with
\* await this.getAll()
storageCall(c) ==
  /\ conCall[c].pc = "idle"
  /\ \/ \E item \in ConItems :
          conCall' = [conCall EXCEPT ![c] = [pc |-> "getAll", op |-> "save", id |-> item.id,
                                             item |-> item, items |-> <<>>]]
     \/ \E id \in ConIds, op \in {"delete", "toggleFavorite"} :
          conCall' = [conCall EXCEPT ![c] = [pc |-> "getAll", op |-> op, id |-> id,
                                             item |-> <<>>, items |-> <<>>]]
  /\ conSeed' = (IF \A d \in Callers : conCall[d].pc = "idle" THEN clothingItems ELSE conSeed)
  /\ UNCHANGED <<restOfCon, clothingItems>>

\* AsyncStorage.getItem answers: getAll returns the list stored at this moment
getAllResolves(c) ==
  /\ conCall[c].pc \in {"getAll", "saveGetAll"}
  /\ conCall' = [conCall EXCEPT ![c].items = clothingItems,
                                ![c].pc = IF @ = "getAll" THEN "gotAll" ELSE "saveGotAll"]
  /\ UNCHANGED <<restOfCon, clothingItems, conSeed>>

\* the call goes on with its own copy of the list: save and delete write
\* what they computed from it, toggleFavorite flips the item and calls save,
\* which reads the list again
callContinues(c) ==
  /\ conCall[c].pc \in {"gotAll", "saveGotAll"}
  /\ LET call  == conCall[c]
         index == findIndex(call.items, call.id)
     IN  IF call.op = "save" \/ call.pc = "saveGotAll"
           THEN /\ clothingItems' = save(call.items, call.item, TRUE)
                /\ conCall' = [conCall EXCEPT ![c].pc = "done"]
         ELSE IF call.op = "delete"
           THEN /\ clothingItems' = delete(call.items, call.id, TRUE)
                /\ conCall' = [conCall EXCEPT ![c].pc = "done"]
         ELSE IF index = 0
           THEN /\ conCall' = [conCall EXCEPT ![c].pc = "done"]
                /\ UNCHANGED clothingItems
         ELSE /\ conCall' = [conCall EXCEPT
                               ![c].item = [call.items[index] EXCEPT !.isFavorite = ~@],
                               ![c].pc = "saveGetAll"]
              /\ UNCHANGED clothingItems
  /\ UNCHANGED <<restOfCon, conSeed>>

NextCon ==
  \/ storeFilled
  \/ \E c \in Callers :
       \/ storageCall(c)
       \/ getAllResolves(c)
       \/ callContinues(c)

SpecCon == InitMap /\ [][NextCon]_vars

\* the list call c leaves when it runs alone on this list
RunAlone(c, list) ==
  CASE conCall[c].op = "save" -> save(list, conCall[c].item, TRUE)
    [] conCall[c].op = "delete" -> delete(list, conCall[c].id, TRUE)
    [] OTHER -> toggleFavorite(list, conCall[c].id)

\* C26: for every interleaving of two overlapping calls among save, delete
\* and toggleFavorite, the final stored list is the list that running the two
\* calls one after the other, in one of the two orders, produces.
C26_CallsAreAtomic ==
  (\A c \in Callers : conCall[c].pc = "done") =>
    clothingItems \in {RunAlone(2, RunAlone(1, conSeed)), RunAlone(1, RunAlone(2, conSeed))}

\* a single call leaves the list it leaves when run alone
OneCallRunsAlone ==
  \A c \in Callers :
    (conCall[c].pc = "done" /\ \A d \in Callers \ {c} : conCall[d].pc = "idle") =>
      clothingItems = RunAlone(c, conSeed)

(***************************************************************************)
(* RateLimiter on its own: canPerformAction('smart-segmentation') is       *)
(* called again and again while the clock stands or moves forward.         *)
(***************************************************************************)
restOfRate == <<earlierVars, cropVars, payVars, conVars, subVars>>

\* how often the clock advances in a run
MaxTicks == 3

\* by how many ms the clock advances between two calls
TickSteps == {1, 59999}

\* configs.get('smart-segmentation').maxAttempts
maxAttempts == 5

\* configs.get('smart-segmentation').windowMs
windowMs == 60000

\* actionHistory.filter(time => now - time < window)
validAttempts(actionHistory, now) ==
  SelectSeq(actionHistory, LAMBDA time : now - time < windowMs)

\* a variant that refuses only above the limit
rateLimitedAbove(valid) == Len(valid) > maxAttempts

\* the test of line 211
rateLimited(valid) == Len(valid) >= maxAttempts

\* canPerformAction('smart-segmentation')
canPerformAction ==
  /\ LET valid == validAttempts(rateActions, rateNow)
     IN  IF rateLimited(valid)
           THEN /\ rateLast' = [now |-> rateNow, allowed |-> FALSE, made |-> TRUE]
                /\ UNCHANGED <<rateActions, rateAccepted>>
           ELSE /\ rateActions' = Append(valid, rateNow)
                /\ rateAccepted' = Append(rateAccepted, rateNow)
                /\ rateLast' = [now |-> rateNow, allowed |-> TRUE, made |-> TRUE]
  /\ UNCHANGED <<restOfRate, rateNow, rateTicks>>

\* the interval timer of lines 294-296 fires: cleanup(); an empty list is
\* a deleted key
cleanup ==
  /\ rateActions' = validAttempts(rateActions, rateNow)
  /\ UNCHANGED <<restOfRate, rateNow, rateTicks, rateAccepted, rateLast>>

\* time passes: Date.now() moves forward
rateTick ==
  /\ rateTicks < MaxTicks
  /\ \E step \in TickSteps : rateNow' = rateNow + step
  /\ rateTicks' = rateTicks + 1
  /\ UNCHANGED <<restOfRate, rateActions, rateAccepted, rateLast>>

NextRate ==
  \/ canPerformAction
  \/ cleanup
  \/ rateTick

SpecRate == InitMap /\ [][NextRate]_vars

\* C27: for calls of canPerformAction('smart-segmentation') at non-decreasing
\* times, every time interval shorter than 60000 ms holds at most 5 calls
\* that returned true.
C27_AtMostFivePerWindow ==
  \A i, j \in DOMAIN rateAccepted :
    (i <= j /\ rateAccepted[j] - rateAccepted[i] < 60000) => j - i + 1 <= 5

C27_Witness ==
  /\ Len(rateAccepted) = 5
  /\ rateAccepted[5] = rateAccepted[1]
  /\ rateLast = [now |-> rateAccepted[1] + 59999, allowed |-> FALSE, made |-> TRUE]

\* no call is refused once the fifth most recent accepted call is 60000 ms
\* old
NoRefusalOnceExpired ==
  ~ /\ rateLast.made
    /\ ~rateLast.allowed
    /\ Len(rateAccepted) >= 5
    /\ rateLast.now - rateAccepted[Len(rateAccepted) - 4] >= 60000

(***************************************************************************)
(* SubscriptionService on its own: its public operations in any order.     *)
(* Writes to AsyncStorage succeed here; a read can fail.                   *)
(***************************************************************************)
restOfSub == <<earlierVars, cropVars, payVars, conVars, rateVars>>

\* largest itemsCount a run counts up to
MaxItemCount == 31

\* largest segmentationsThisMonth a run counts up to
MaxSegCount == 4

Tiers == {"free", "basic", "premium"}

\* plan.limits.maxItems; 0 stands for undefined (unlimited)
maxItems(tier) ==
  CASE tier = "free" -> 30
    [] tier = "basic" -> 200
    [] OTHER -> 0

\* validateUsageStats (validators.ts lines 130-149)
validateUsageStats(stats) ==
  /\ stats.itemsCount >= 0
  /\ stats.segmentationsThisMonth >= 0
  /\ stats.itemsCount <= 100000
  /\ stats.segmentationsThisMonth <= 10000

\* validateSubscription
validateSubscription(subscription) ==
  /\ subscription.tier \in Tiers
  /\ validateUsageStats(subscription)

\* getDefaultSubscription
getDefaultSubscription == [tier |-> "free", itemsCount |-> 0, segmentationsThisMonth |-> 0]

\* saveSubscription: AsyncStorage.setItem(SUBSCRIPTION_KEY, ...) resolves
saveSubscription(subscription) == subStored' = subscription

\* a number, or 'unlimited'
Remaining(limit, used) ==
  IF limit # 0 THEN [unlimited |-> FALSE, left |-> limit - used]
  ELSE [unlimited |-> TRUE, left |-> 0]

\* getRemainingUsage, lines 312-322
getRemainingUsage(subscription) ==
  [ items         |-> Remaining(maxItems(subscription.tier), subscription.itemsCount),
    segmentations |-> Remaining(maxSegmentations(subscription.tier),
                                subscription.segmentationsThisMonth) ]

\* initialize: the stored subscription when it is valid, else the default
initialize ==
  /\ \/ /\ subStored # NoSubscription
        /\ validateSubscription(subStored)
        /\ currentSubscription' = subStored
        /\ UNCHANGED subStored
     \/ /\ subStored = NoSubscription \/ ~validateSubscription(subStored)
        /\ currentSubscription' = getDefaultSubscription
        /\ saveSubscription(getDefaultSubscription)
     \/ /\ currentSubscription' = getDefaultSubscription
        /\ UNCHANGED subStored
  /\ UNCHANGED restOfSub

\* upgradeTo(tier): keeps itemsCount, resets segmentationsThisMonth
upgradeTo(tier) ==
  /\ LET upgraded == [tier |-> tier, itemsCount |-> currentSubscription.itemsCount,
                      segmentationsThisMonth |-> 0]
     IN  /\ currentSubscription' = upgraded
         /\ saveSubscription(upgraded)
  /\ UNCHANGED restOfSub

\* the operations below do nothing while currentSubscription is null
changeUsage(changed) ==
  /\ currentSubscription # NoSubscription
  /\ currentSubscription' = changed
  /\ saveSubscription(changed)
  /\ UNCHANGED restOfSub

\* incrementItemCount
incrementItemCount ==
  /\ currentSubscription.itemsCount < MaxItemCount
  /\ currentSubscription.itemsCount < 100000
  /\ changeUsage([currentSubscription EXCEPT !.itemsCount = @ + 1])

\* decrementItemCount
decrementItemCount ==
  changeUsage([currentSubscription EXCEPT !.itemsCount = IF @ > 0 THEN @ - 1 ELSE 0])

\* incrementSegmentationCount, on the service's own state
countSegmentation ==
  /\ currentSubscription.segmentationsThisMonth < MaxSegCount
  /\ changeUsage([currentSubscription EXCEPT !.segmentationsThisMonth = @ + 1])

\* resetMonthlyStats
resetMonthlyStats ==
  changeUsage([currentSubscription EXCEPT !.segmentationsThisMonth = 0])

NextSub ==
  \/ initialize
  \/ \E tier \in Tiers : upgradeTo(tier)
  \/ incrementItemCount
  \/ decrementItemCount
  \/ countSegmentation
  \/ resetMonthlyStats

SpecSub == InitMap /\ [][NextSub]_vars

\* 'unlimited' or a number >= 0
NotNegative(remaining) == remaining.unlimited \/ remaining.left >= 0

\* C29: in every subscription state reachable through initialize, upgradeTo,
\* incrementItemCount, decrementItemCount, incrementSegmentationCount and
\* resetMonthlyStats, getRemainingUsage reports for items and for
\* segmentations either 'unlimited' or a number >= 0.
C29_RemainingNotNegative ==
  currentSubscription # NoSubscription =>
    /\ NotNegative(getRemainingUsage(currentSubscription).items)
    /\ NotNegative(getRemainingUsage(currentSubscription).segmentations)

\* the counters themselves never go below 0
UsageNotNegative ==
  /\ currentSubscription.itemsCount >= 0
  /\ currentSubscription.segmentationsThisMonth >= 0

\* a rectangle that lies inside an image of this size
InsideImage(box, size) ==
  /\ box.x >= 0 /\ box.y >= 0
  /\ box.width > 0 /\ box.height > 0
  /\ box.x + box.width <= size[1]
  /\ box.y + box.height <= size[2]

\* C30: for a candidate whose normalized vertices lie in [0, 1] and that the
\* real path accepts (width > 0 and height > 0), the boundingBox lies inside
\* the image: x >= 0, y >= 0, width > 0, height > 0, x + width <= imageWidth
\* and y + height <= imageHeight.
C30_BoxInsideImage ==
  (pxPc = "done" /\ ~invalidDimensions(pxBox)) => InsideImage(pxBox, pxSize)

C30_Witness ==
  /\ pxPc = "done"
  /\ pxLiteral = << <<Decimal(7, 10), Decimal(0, 8)>>, <<Decimal(8, 8), Decimal(7, 10)>> >>
  /\ pxSize = <<1000, 1000>>
  /\ pxBox = [x |-> 700, y |-> 0, width |-> 300, height |-> 700]

\* the boundingBox of every item of the result is the rectangle computed for
\* its candidate, and lies inside the image
ResultBoxInsideImage ==
  /\ \A i \in DOMAIN items :
       /\ items[i].boundingBox = pixelBox(sortedObjects[CandidateOf(items[i])], imageSize)
       /\ InsideImage(items[i].boundingBox, imageSize)
  /\ RealPathReturned =>
       \A i \in DOMAIN segmentedItems : InsideImage(segmentedItems[i].boundingBox, imageSize)

====
